---- MODULE Spec2Model ----
(***************************************************************************)
(* Ledger, prediction markets, settlement and the withdrawal limiter of    *)
(* the server (src/unnamed/part_000).                                      *)
(*                                                                         *)
(* The server is a single Node.js process: a request handler runs to       *)
(* completion unless it reaches an `await` on the external price index     *)
(* (computeTwapCap).  Every action below is therefore one run-to-          *)
(* completion segment of a handler: from the arrival of the request to its *)
(* response or to its first pending price query, and from the arrival of   *)
(* the price to the response.  Handlers that never wait on I/O (deposit,   *)
(* withdraw, admin) are one action.                                        *)
(*                                                                         *)
(* Amounts are exact: a TON amount t is the integer t * Scale, and Scale   *)
(* is chosen so that every fee and payout the bounded model can compute is *)
(* an integer.  Rounding of IEEE-754 doubles is not modelled.              *)
(* Date.now() is the variable now, in seconds; it never decreases.         *)
(***************************************************************************)
EXTENDS Integers, Sequences, FiniteSets, TLC

\* ---------------------------------------------------------------- bounds
\* requests the clients send in one behaviour, and how far the clock runs
MaxRequests == 4
MaxMinutes == 1
\* the same for the behaviours of the withdrawal limiter alone
MaxLimitRequests == 8
MaxDays == 6

\* ------------------------------------------------------------- constants
\* The clock counts seconds, not milliseconds (30 days of milliseconds exceed
\* the integers of the model checker); every clock reading of the model is a
\* whole number of minutes.
MinuteMs == 60
dayMs == 24 * 60 * 60
monthMs == 30 * dayMs
WITHDRAW_FEE_PERCENT == 5
WITHDRAW_LIMIT_DAILY_TON == 500
WITHDRAW_LIMIT_MONTHLY_TON == 3000

RECURSIVE Gcd(_, _)
Gcd(a, b) == IF b = 0 THEN a ELSE Gcd(b, a % b)

RECURSIVE LcmUpTo(_)
LcmUpTo(n) == IF n <= 1 THEN 1 ELSE (LcmUpTo(n - 1) * n) \div Gcd(LcmUpTo(n - 1), n)

\* stakes of the open-bet requests, in TON
StakeTon == {1, 2}

\* Units per TON: fees of 2% and 5% and every pro-rata payout of a pool of
\* at most MaxRequests - 1 stakes of at most 2 TON are whole units.
Scale == 50 * LcmUpTo(2 * (MaxRequests - 1))

WITHDRAW_LIMIT_DAILY == WITHDRAW_LIMIT_DAILY_TON * Scale
WITHDRAW_LIMIT_MONTHLY == WITHDRAW_LIMIT_MONTHLY_TON * Scale

Users == {"u1", "u2"}
ALLOWED_PREDICTION_ASSETS == {"GIFTS", "STICKERS", "TON"}
ADMIN_SECRET == "secret"
Directions == {"above", "below"}
\* index values the price provider can return; 0 is what computeTwapCap
\* yields when the lookup fails
ProviderThrows == -1
ProviderResults == {ProviderThrows, 0, 1000, 1002}
\* undefined property of a JS object (settleCap, feeCollected before settlement)
Undefined == -1

VARIABLES
  now,            \* Date.now()
  ledger,         \* Map userId -> balanceTon (records are created lazily)
  markets,        \* array of markets
  nextMarketId,
  nextBetId,
  withdrawalLog,  \* Map userId -> array of {ts, amountTon}
  withdrawQueue,  \* array of withdrawal requests
  inflight,       \* handlers suspended on a price-index query, oldest first
  resp,           \* the last response sent
  deposited,      \* history: total credited by deposits
  budget,         \* requests the clients will still send
  betCredits,     \* history: betCredits[id] = settlement credits applied to bet id
  settleRuns,     \* history: settleRuns[i] = settlement runs completed on markets[i]
  pgPool,         \* whether a PostgreSQL pool is configured (PG_CONNECTION_STRING)
  balances,       \* the table balances: user_id -> balance
  pgQueries       \* the upserts issued to the pool and not yet completed

vars == <<now, ledger, markets, nextMarketId, nextBetId, withdrawalLog,
          withdrawQueue, inflight, resp, deposited, budget, betCredits,
          settleRuns, pgPool, balances, pgQueries>>

\* The persistent store.  The handlers below leave it alone: they are those of
\* a server started without PG_CONNECTION_STRING, where pgPool is null and
\* credit and debit issue no query.
pg == <<pgPool, balances, pgQueries>>

\* the upsert that updatePersistentBalance hands to the pool
updatePersistentBalance(queries, uid, balanceTon) ==
  Append(queries, [userId |-> uid, balanceTon |-> balanceTon])

\* ---------------------------------------------------------------- ledger
getBal(l, userId) == IF userId \in DOMAIN l THEN l[userId] ELSE 0

LedgerSet(l, uid, v) == [x \in (DOMAIN l) \cup {uid} |-> IF x = uid THEN v ELSE l[x]]

\* credit(userId, ton): no validation, adds the amount
credit(l, userId, ton) == LedgerSet(l, userId, getBal(l, userId) + ton)

\* mutant: debit without the balance check
debitError_NoBalanceCheck(l, userId, ton) ==
  IF ton <= 0 THEN "Invalid debit amount" ELSE ""

\* mutant: a debit of the whole balance is refused
debitError_StrictBalance(l, userId, ton) ==
  IF ton <= 0 THEN "Invalid debit amount"
  ELSE IF getBal(l, userId) <= ton THEN "Insufficient balance"
  ELSE ""

\* debit(userId, ton): the error thrown, or "" when the debit is applied
debitError(l, userId, ton) ==
  IF ton <= 0 THEN "Invalid debit amount"
  ELSE IF getBal(l, userId) < ton THEN "Insufficient balance"
  ELSE ""

debit(l, userId, ton) == LedgerSet(l, userId, getBal(l, userId) - ton)

\* a call debit(userId, ton) whose caller catches the error
DebitCall(userId, ton) ==
  /\ budget > 0
  /\ budget' = budget - 1
  /\ IF debitError(ledger, userId, ton) # ""
     THEN /\ resp' = [op |-> "debit", code |-> 400,
                      msg |-> debitError(ledger, userId, ton), market |-> 0]
          /\ UNCHANGED ledger
     ELSE /\ ledger' = debit(ledger, userId, ton)
          /\ resp' = [op |-> "debit", code |-> 200, msg |-> "", market |-> 0]
  /\ pgQueries' = IF pgPool /\ debitError(ledger, userId, ton) = ""
                   THEN updatePersistentBalance(pgQueries, userId,
                                                getBal(ledger', userId))
                   ELSE pgQueries
  /\ UNCHANGED <<pgPool, balances>>
  /\ UNCHANGED <<now, markets, nextMarketId, nextBetId, withdrawalLog,
                 withdrawQueue, inflight, deposited, betCredits, settleRuns>>

\* a call credit(userId, ton): credit() throws nothing
CreditCall(userId, ton) ==
  /\ budget > 0
  /\ budget' = budget - 1
  /\ ledger' = credit(ledger, userId, ton)
  /\ resp' = [op |-> "credit", code |-> 200, msg |-> "", market |-> 0]
  /\ pgQueries' = IF pgPool
                   THEN updatePersistentBalance(pgQueries, userId,
                                                getBal(ledger', userId))
                   ELSE pgQueries
  /\ UNCHANGED <<pgPool, balances>>
  /\ UNCHANGED <<now, markets, nextMarketId, nextBetId, withdrawalLog,
                 withdrawQueue, inflight, deposited, betCredits, settleRuns>>

\* an upsert completes: INSERT ... ON CONFLICT (user_id) DO UPDATE SET balance.
\* The pool runs concurrent queries on separate connections, so the queries
\* in flight complete in any order.
PgQueryCompletes(k) ==
  /\ k \in 1..Len(pgQueries)
  /\ balances' = LedgerSet(balances, pgQueries[k].userId, pgQueries[k].balanceTon)
  /\ pgQueries' = [i \in 1..(Len(pgQueries) - 1) |->
                     IF i < k THEN pgQueries[i] ELSE pgQueries[i + 1]]
  /\ UNCHANGED <<now, ledger, markets, nextMarketId, nextBetId, withdrawalLog,
                 withdrawQueue, inflight, resp, deposited, budget, betCredits,
                 settleRuns, pgPool>>

\* the body of the answer of GET /api/wallet/balance
BalanceResponse(bal) ==
  [op |-> "balance", code |-> 200, msg |-> "", market |-> 0, balanceTon |-> bal]

\* mutant: reading the balance of an unknown user creates its record
BalanceRequest_CreatesRecord(uid) ==
  /\ budget > 0
  /\ budget' = budget - 1
  /\ IF uid = ""
     THEN /\ resp' = [op |-> "balance", code |-> 400,
                      msg |-> "Missing userId parameter", market |-> 0]
          /\ UNCHANGED ledger
     ELSE /\ resp' = BalanceResponse(getBal(ledger, uid))
          /\ ledger' = LedgerSet(ledger, uid, getBal(ledger, uid))
  /\ UNCHANGED pg
  /\ UNCHANGED <<now, markets, nextMarketId, nextBetId, withdrawalLog,
                 withdrawQueue, inflight, deposited, betCredits, settleRuns>>

\* GET /api/wallet/balance?userId=<uid>
BalanceRequest(uid) ==
  /\ budget > 0
  /\ budget' = budget - 1
  /\ resp' = IF uid = ""
             THEN [op |-> "balance", code |-> 400,
                   msg |-> "Missing userId parameter", market |-> 0]
             ELSE BalanceResponse(getBal(ledger, uid))
  /\ UNCHANGED pg
  /\ UNCHANGED <<now, ledger, markets, nextMarketId, nextBetId, withdrawalLog,
                 withdrawQueue, inflight, deposited, betCredits, settleRuns>>

\* ------------------------------------------------------------ withdrawals
\* mutant: the usage is read from a snapshot that misses the entries logged
\* at the instant of the request
RECURSIVE SumWithin_Stale(_, _, _)
SumWithin_Stale(logs, t, window) ==
  IF logs = <<>> THEN 0
  ELSE (IF t - Head(logs).ts < window /\ Head(logs).ts < t
        THEN Head(logs).amountTon ELSE 0)
       + SumWithin_Stale(Tail(logs), t, window)

RECURSIVE SumWithin(_, _, _)
SumWithin(logs, t, window) ==
  IF logs = <<>> THEN 0
  ELSE (IF t - Head(logs).ts < window THEN Head(logs).amountTon ELSE 0)
       + SumWithin(Tail(logs), t, window)

LogOf(wl, userId) == IF userId \in DOMAIN wl THEN wl[userId] ELSE <<>>

\* mutant: an entry aged exactly 24h still counts for the day
getWithdrawUsage_InclusiveDay(wl, userId, t) ==
  [dailyUsed |-> SumWithin(LogOf(wl, userId), t, dayMs + 1),
   monthlyUsed |-> SumWithin(LogOf(wl, userId), t, monthMs)]

\* mutant: the usage is summed over the logs of all users
getWithdrawUsage_AllUsers(wl, userId, t) ==
  [dailyUsed |-> SumWithin(LogOf(wl, "u1") \o LogOf(wl, "u2"), t, dayMs),
   monthlyUsed |-> SumWithin(LogOf(wl, "u1") \o LogOf(wl, "u2"), t, monthMs)]

getWithdrawUsage(wl, userId, t) ==
  [dailyUsed |-> SumWithin(LogOf(wl, userId), t, dayMs),
   monthlyUsed |-> SumWithin(LogOf(wl, userId), t, monthMs)]

\* a response: the handler that sent it ("/resumed" when it had waited for the
\* price index), the HTTP status, the message, and the index of the market it
\* carries (0 when it carries none)
Response(op, code, msg) == [op |-> op, code |-> code, msg |-> msg, market |-> 0]

MarketResponse(op, i) == [op |-> op, code |-> 200, msg |-> "", market |-> i]

\* the body of the answer of GET /api/wallet/limits
LimitsResponse(used) ==
  [op |-> "limits", code |-> 200, msg |-> "", market |-> 0,
   dailyUsed |-> used.dailyUsed,
   dailyRemaining |-> IF WITHDRAW_LIMIT_DAILY - used.dailyUsed > 0
                      THEN WITHDRAW_LIMIT_DAILY - used.dailyUsed ELSE 0,
   monthlyUsed |-> used.monthlyUsed,
   monthlyRemaining |-> IF WITHDRAW_LIMIT_MONTHLY - used.monthlyUsed > 0
                        THEN WITHDRAW_LIMIT_MONTHLY - used.monthlyUsed ELSE 0]

\* GET /api/wallet/limits?userId=<uid>
LimitsRequest(uid) ==
  /\ budget > 0
  /\ budget' = budget - 1
  /\ resp' = IF uid = ""
             THEN Response("limits", 400, "Missing userId parameter")
             ELSE LimitsResponse(getWithdrawUsage(withdrawalLog, uid, now))
  /\ UNCHANGED pg
  /\ UNCHANGED <<now, ledger, markets, nextMarketId, nextBetId, withdrawalLog,
                 withdrawQueue, inflight, deposited, betCredits, settleRuns>>

NoRequest == [kind |-> "none", userId |-> "", asset |-> "", direction |-> "",
              amount |-> 0, expiry |-> 0, openedAt |-> 0, market |-> 0]

\* the array without its i-th element
Remove(seq, i) == SubSeq(seq, 1, i - 1) \o SubSeq(seq, i + 1, Len(seq))

Init ==
  /\ now = 0
  /\ ledger = [u \in {} |-> 0]
  /\ markets = <<>>
  /\ nextMarketId = 1
  /\ nextBetId = 1
  /\ withdrawalLog = [u \in {} |-> <<>>]
  /\ withdrawQueue = <<>>
  /\ inflight = <<>>
  /\ resp = Response("none", 0, "")
  /\ deposited = 0
  /\ budget = MaxRequests
  /\ betCredits = <<>>
  /\ settleRuns = <<>>
  /\ pgPool = FALSE
  /\ balances = [u \in {} |-> 0]
  /\ pgQueries = <<>>

\* POST /api/wallet/deposit/webhook
Deposit(userId, amt) ==
  /\ budget > 0
  /\ budget' = budget - 1
  /\ IF userId = "" \/ amt <= 0
     THEN /\ resp' = Response("deposit", 400, "Invalid deposit")
          /\ UNCHANGED <<ledger, deposited>>
     ELSE /\ ledger' = credit(ledger, userId, amt)
          /\ deposited' = deposited + amt
          /\ resp' = Response("deposit", 200, "")
  /\ UNCHANGED pg
  /\ UNCHANGED <<now, markets, nextMarketId, nextBetId, withdrawalLog,
                 withdrawQueue, inflight, betCredits, settleRuns>>

\* mutant: a request that lands exactly on a limit is refused
WithdrawError_Inclusive(l, wl, userId, to, amt, t) ==
  LET u == [dailyUsed |-> SumWithin(LogOf(wl, userId), t, dayMs),
            monthlyUsed |-> SumWithin(LogOf(wl, userId), t, monthMs)]
  IN IF userId = "" \/ to = "" \/ amt <= 0 THEN "Invalid withdrawal request"
     ELSE IF amt + u.dailyUsed >= WITHDRAW_LIMIT_DAILY THEN "Daily withdrawal limit exceeded"
     ELSE IF amt + u.monthlyUsed >= WITHDRAW_LIMIT_MONTHLY THEN "Monthly withdrawal limit exceeded"
     ELSE debitError(l, userId, amt)

\* the response of the withdraw handler before it changes anything, "" when
\* the request passes every check
WithdrawError(l, wl, userId, to, amt, t) ==
  LET u == getWithdrawUsage(wl, userId, t)
  IN IF userId = "" \/ to = "" \/ amt <= 0 THEN "Invalid withdrawal request"
     ELSE IF amt + u.dailyUsed > WITHDRAW_LIMIT_DAILY THEN "Daily withdrawal limit exceeded"
     ELSE IF amt + u.monthlyUsed > WITHDRAW_LIMIT_MONTHLY THEN "Monthly withdrawal limit exceeded"
     ELSE debitError(l, userId, amt)

\* feeTon = amt * WITHDRAW_FEE_RATE
WithdrawFee(amt) == (amt * WITHDRAW_FEE_PERCENT) \div 100

\* mutant: the queue entry records the net amount as the amount withdrawn
NewWithdrawal_NetAsAmount(userId, to, amt, t) ==
  [id |-> t, userId |-> userId, amountTon |-> amt - WithdrawFee(amt),
   feeTon |-> WithdrawFee(amt), netTon |-> amt - WithdrawFee(amt), to |-> to,
   status |-> "pending", requestedAt |-> t, txHash |-> "",
   completedAt |-> Undefined]

\* the queue entry; its id wd_<Date.now() in hex> is represented by the clock
\* reading it encodes
NewWithdrawal(userId, to, amt, t) ==
  [id |-> t, userId |-> userId, amountTon |-> amt, feeTon |-> WithdrawFee(amt),
   netTon |-> amt - WithdrawFee(amt), to |-> to, status |-> "pending",
   requestedAt |-> t, txHash |-> "", completedAt |-> Undefined]

\* mutant: the amount is debited before the limits are checked
Withdraw_DebitBeforeLimits(userId, to, amt) ==
  LET err == WithdrawError(ledger, withdrawalLog, userId, to, amt, now)
  IN
  /\ budget > 0
  /\ budget' = budget - 1
  /\ IF err # ""
     THEN /\ resp' = Response("withdraw", 400, err)
          /\ ledger' = IF /\ userId # "" /\ to # "" /\ amt > 0
                          /\ debitError(ledger, userId, amt) = ""
                       THEN debit(ledger, userId, amt) ELSE ledger
          /\ UNCHANGED <<withdrawalLog, withdrawQueue>>
     ELSE /\ ledger' = debit(ledger, userId, amt)
          /\ withdrawalLog' =
               [x \in (DOMAIN withdrawalLog) \cup {userId} |->
                  IF x = userId
                  THEN Append(LogOf(withdrawalLog, userId), [ts |-> now, amountTon |-> amt])
                  ELSE withdrawalLog[x]]
          /\ withdrawQueue' = Append(withdrawQueue, NewWithdrawal(userId, to, amt, now))
          /\ resp' = Response("withdraw", 200, "")
  /\ UNCHANGED pg
  /\ UNCHANGED <<now, markets, nextMarketId, nextBetId, inflight, deposited,
                 betCredits, settleRuns>>

\* POST /api/wallet/withdraw
Withdraw(userId, to, amt) ==
  LET err == WithdrawError(ledger, withdrawalLog, userId, to, amt, now)
  IN
  /\ budget > 0
  /\ budget' = budget - 1
  /\ IF err # ""
     THEN /\ resp' = Response("withdraw", 400, err)
          /\ UNCHANGED <<ledger, withdrawalLog, withdrawQueue>>
     ELSE /\ ledger' = debit(ledger, userId, amt)
          /\ withdrawalLog' =
               [x \in (DOMAIN withdrawalLog) \cup {userId} |->
                  IF x = userId
                  THEN Append(LogOf(withdrawalLog, userId), [ts |-> now, amountTon |-> amt])
                  ELSE withdrawalLog[x]]
          /\ withdrawQueue' = Append(withdrawQueue, NewWithdrawal(userId, to, amt, now))
          /\ resp' = Response("withdraw", 200, "")
  /\ UNCHANGED pg
  /\ UNCHANGED <<now, markets, nextMarketId, nextBetId, inflight, deposited,
                 betCredits, settleRuns>>

\* withdrawQueue.findIndex(w => w.id === id), 0 when there is none
FindWithdrawal(q, id) ==
  LET hits == {i \in 1..Len(q) : q[i].id = id}
  IN IF hits = {} THEN 0 ELSE CHOOSE i \in hits : \A j \in hits : i <= j

\* mutant: completion returns the net amount to the ledger
ProcessWithdrawal_Refunds(secret, id, txHash) ==
  LET idx == FindWithdrawal(withdrawQueue, id)
  IN
  /\ budget > 0
  /\ budget' = budget - 1
  /\ IF ADMIN_SECRET = "" \/ secret # ADMIN_SECRET
     THEN /\ resp' = Response("process", 403, "Forbidden")
          /\ UNCHANGED <<withdrawQueue, ledger>>
     ELSE IF idx = 0
     THEN /\ resp' = Response("process", 404, "Withdrawal not found")
          /\ UNCHANGED <<withdrawQueue, ledger>>
     ELSE IF withdrawQueue[idx].status = "completed"
     THEN /\ resp' = Response("process", 200, "")
          /\ UNCHANGED <<withdrawQueue, ledger>>
     ELSE /\ withdrawQueue' = [withdrawQueue EXCEPT ![idx] =
                 [@ EXCEPT !.status = "completed", !.txHash = txHash,
                           !.completedAt = now]]
          /\ ledger' = credit(ledger, withdrawQueue[idx].userId,
                              withdrawQueue[idx].netTon)
          /\ resp' = Response("process", 200, "")
  /\ UNCHANGED pg
  /\ UNCHANGED <<now, markets, nextMarketId, nextBetId, withdrawalLog,
                 inflight, deposited, betCredits, settleRuns>>

\* mutant: a completed entry is completed again
ProcessWithdrawal_Overwrites(secret, id, txHash) ==
  LET idx == FindWithdrawal(withdrawQueue, id)
  IN
  /\ budget > 0
  /\ budget' = budget - 1
  /\ IF ADMIN_SECRET = "" \/ secret # ADMIN_SECRET
     THEN /\ resp' = Response("process", 403, "Forbidden")
          /\ UNCHANGED withdrawQueue
     ELSE IF idx = 0
     THEN /\ resp' = Response("process", 404, "Withdrawal not found")
          /\ UNCHANGED withdrawQueue
     ELSE /\ withdrawQueue' = [withdrawQueue EXCEPT ![idx] =
                 [@ EXCEPT !.status = "completed", !.txHash = txHash,
                           !.completedAt = now]]
          /\ resp' = Response("process", 200, "")
  /\ UNCHANGED pg
  /\ UNCHANGED <<now, ledger, markets, nextMarketId, nextBetId, withdrawalLog,
                 inflight, deposited, betCredits, settleRuns>>

\* POST /api/admin/withdrawals/process: the first of the two handlers
\* registered for this route answers every request
ProcessWithdrawal(secret, id, txHash) ==
  LET idx == FindWithdrawal(withdrawQueue, id)
  IN
  /\ budget > 0
  /\ budget' = budget - 1
  /\ IF ADMIN_SECRET = "" \/ secret # ADMIN_SECRET
     THEN /\ resp' = Response("process", 403, "Forbidden")
          /\ UNCHANGED withdrawQueue
     ELSE IF idx = 0
     THEN /\ resp' = Response("process", 404, "Withdrawal not found")
          /\ UNCHANGED withdrawQueue
     ELSE IF withdrawQueue[idx].status = "completed"
     THEN /\ resp' = Response("process", 200, "")
          /\ UNCHANGED withdrawQueue
     ELSE /\ withdrawQueue' = [withdrawQueue EXCEPT ![idx] =
                 [@ EXCEPT !.status = "completed", !.txHash = txHash,
                           !.completedAt = now]]
          /\ resp' = Response("process", 200, "")
  /\ UNCHANGED pg
  /\ UNCHANGED <<now, ledger, markets, nextMarketId, nextBetId, withdrawalLog,
                 inflight, deposited, betCredits, settleRuns>>

\* The secret an admin route compares with ADMIN_SECRET.  handleApi reaches
\* the first handler registered for a route and returns: the GET routes read
\* the `secret` query parameter and the process route the `secret` field of
\* the body.  The handlers that also read the X-Admin-Secret header are
\* registered later for the same routes and are never reached.
SuppliedSecret(route, header, query, body) ==
  IF route = "process" THEN body ELSE query

AdminGetRoutes == {"withdrawals", "markets", "ledger"}

\* GET /api/admin/withdrawals, /api/admin/markets, /api/admin/ledger
AdminGet(route, header, query) ==
  /\ budget > 0
  /\ budget' = budget - 1
  /\ resp' = IF ADMIN_SECRET = ""
                  \/ SuppliedSecret(route, header, query, "") # ADMIN_SECRET
             THEN Response(route, 403, "Forbidden")
             ELSE Response(route, 200, "")
  /\ UNCHANGED pg
  /\ UNCHANGED <<now, ledger, markets, nextMarketId, nextBetId, withdrawalLog,
                 withdrawQueue, inflight, deposited, betCredits, settleRuns>>

\* POST /api/admin/withdrawals/process as a request with its header, query
\* string and body
AdminProcess(header, query, body, id, txHash) ==
  ProcessWithdrawal(SuppliedSecret("process", header, query, body), id, txHash)

\* ---------------------------------------------------------------- markets
\* mutant: a failed lookup falls back to a fixed index instead of 0
computeTwapCap_DefaultIndex(r) == IF r = ProviderThrows \/ r = 0 THEN 1000 ELSE r

\* computeTwapCap: the provider's capTon, or 0 when the lookup throws or
\* yields a falsy value
computeTwapCap(r) == IF r = ProviderThrows THEN 0 ELSE IF r # 0 THEN r ELSE 0

\* mutant: the lookup ignores the expiry
FindOpenMarket_AnyExpiry(ms, asset, expiry) ==
  LET hits == {i \in 1..Len(ms) : ms[i].asset = asset /\ ms[i].status = "open"}
  IN IF hits = {} THEN 0 ELSE CHOOSE i \in hits : \A j \in hits : i <= j

\* markets.find(m => m.asset === asset && m.expiry === expiry && m.status === 'open')
\* as an index into markets, 0 when there is none
FindOpenMarket(ms, asset, expiry) ==
  LET hits == {i \in 1..Len(ms) : /\ ms[i].asset = asset
                                  /\ ms[i].expiry = expiry
                                  /\ ms[i].status = "open"}
  IN IF hits = {} THEN 0 ELSE CHOOSE i \in hits : \A j \in hits : i <= j

\* markets.find(m => m.id === marketId)
FindMarketById(ms, marketId) ==
  LET hits == {i \in 1..Len(ms) : ms[i].id = marketId}
  IN IF hits = {} THEN 0 ELSE CHOOSE i \in hits : \A j \in hits : i <= j

NewMarket(id, asset, expiry, entryCap, openedAt) ==
  [id |-> id, asset |-> asset, expiry |-> expiry, strike |-> entryCap,
   pools |-> [above |-> 0, below |-> 0], bets |-> <<>>, status |-> "open",
   openedAt |-> openedAt, settleCap |-> Undefined, feeCollected |-> Undefined]

NewBet(id, userId, direction, amount) ==
  [id |-> id, userId |-> userId, direction |-> direction, stakeTon |-> amount]

\* mutant: the bet is recorded without its stake reaching the pool
PlaceBet_NoPool(m, bet) == [m EXCEPT !.bets = Append(@, bet)]

\* market.bets.push(bet); market.pools[direction] += amount
PlaceBet(m, bet) ==
  [m EXCEPT !.bets = Append(@, bet),
            !.pools[bet.direction] = @ + bet.stakeTon]

\* the message of the error the open handler throws before getOrCreateMarket,
\* "" when it throws none
OpenError(l, userId, asset, direction, amount, expiryMinutes) ==
  IF userId = "" THEN "userId required"
  ELSE IF asset \notin ALLOWED_PREDICTION_ASSETS THEN "Invalid asset"
  ELSE IF direction \notin {"above", "below"} THEN "Invalid direction"
  ELSE IF amount <= 0 THEN "Invalid amount"
  ELSE IF expiryMinutes <= 0 THEN "Invalid expiryMinutes"
  ELSE debitError(l, userId, amount)

\* mutant: expiryMinutes is checked after the debit
OpenBet_LateExpiryCheck(userId, asset, direction, amount, expiryMinutes) ==
  LET err == OpenError(ledger, userId, asset, direction, amount, 1)
      expiry == now + expiryMinutes * MinuteMs
      existing == FindOpenMarket(markets, asset, expiry)
      bet == NewBet(nextBetId, userId, direction, amount)
  IN
  /\ budget > 0
  /\ budget' = budget - 1
  /\ IF err # ""
     THEN /\ resp' = Response("open", 400, err)
          /\ UNCHANGED <<ledger, markets, nextBetId, inflight, betCredits>>
     ELSE /\ ledger' = debit(ledger, userId, amount)
          /\ IF expiryMinutes <= 0
             THEN /\ resp' = Response("open", 400, "Invalid expiryMinutes")
                  /\ UNCHANGED <<markets, nextBetId, inflight, betCredits>>
             ELSE IF existing # 0
             THEN /\ markets' = [markets EXCEPT ![existing] = PlaceBet(@, bet)]
                  /\ nextBetId' = nextBetId + 1
                  /\ betCredits' = Append(betCredits, 0)
                  /\ resp' = MarketResponse("open", existing)
                  /\ UNCHANGED inflight
             ELSE /\ inflight' = Append(inflight,
                          [kind |-> "open", userId |-> userId, asset |-> asset,
                           direction |-> direction, amount |-> amount,
                           expiry |-> expiry, openedAt |-> now, market |-> 0])
                  /\ UNCHANGED <<markets, nextBetId, betCredits, resp>>
  /\ UNCHANGED pg
  /\ UNCHANGED <<now, nextMarketId, withdrawalLog, withdrawQueue, deposited,
                 settleRuns>>

\* POST /api/prediction/open, up to the response or to the pending price
\* query of getOrCreateMarket
OpenBet(userId, asset, direction, amount, expiryMinutes) ==
  LET err == OpenError(ledger, userId, asset, direction, amount, expiryMinutes)
      expiry == now + expiryMinutes * MinuteMs
      existing == FindOpenMarket(markets, asset, expiry)
      bet == NewBet(nextBetId, userId, direction, amount)
  IN
  /\ budget > 0
  /\ budget' = budget - 1
  /\ IF err # ""
     THEN /\ resp' = Response("open", 400, err)
          /\ UNCHANGED <<ledger, markets, nextBetId, inflight, betCredits>>
     ELSE /\ ledger' = debit(ledger, userId, amount)
          /\ IF existing # 0
             THEN /\ markets' = [markets EXCEPT ![existing] = PlaceBet(@, bet)]
                  /\ nextBetId' = nextBetId + 1
                  /\ betCredits' = Append(betCredits, 0)
                  /\ resp' = MarketResponse("open", existing)
                  /\ UNCHANGED inflight
             ELSE /\ inflight' = Append(inflight,
                          [kind |-> "open", userId |-> userId, asset |-> asset,
                           direction |-> direction, amount |-> amount,
                           expiry |-> expiry, openedAt |-> now, market |-> 0])
                  /\ UNCHANGED <<markets, nextBetId, betCredits, resp>>
  /\ UNCHANGED pg
  /\ UNCHANGED <<now, nextMarketId, withdrawalLog, withdrawQueue, deposited,
                 settleRuns>>

\* mutant: a failing price index query fails the request after its debit
OpenResume_ThrowsOnProviderFailure(s, r) ==
  LET q == inflight[s]
      market == NewMarket(nextMarketId, q.asset, q.expiry, computeTwapCap(r), q.openedAt)
      bet == NewBet(nextBetId, q.userId, q.direction, q.amount)
  IN
  /\ s \in 1..Len(inflight)
  /\ q.kind = "open"
  /\ inflight' = Remove(inflight, s)
  /\ IF r = ProviderThrows
     THEN /\ resp' = Response("open/resumed", 400, "price index unavailable")
          /\ UNCHANGED <<nextMarketId, markets, nextBetId, betCredits, settleRuns>>
     ELSE /\ nextMarketId' = nextMarketId + 1
          /\ markets' = Append(markets, PlaceBet(market, bet))
          /\ nextBetId' = nextBetId + 1
          /\ betCredits' = Append(betCredits, 0)
          /\ settleRuns' = Append(settleRuns, 0)
          /\ resp' = MarketResponse("open/resumed", Len(markets) + 1)
  /\ UNCHANGED pg
  /\ UNCHANGED <<now, ledger, withdrawalLog, withdrawQueue, deposited, budget>>

\* mutant: the resumed request uses the bet id without advancing it
OpenResume_KeepsBetId(s, r) ==
  LET q == inflight[s]
      market == NewMarket(nextMarketId, q.asset, q.expiry, computeTwapCap(r), q.openedAt)
      bet == NewBet(nextBetId, q.userId, q.direction, q.amount)
  IN
  /\ s \in 1..Len(inflight)
  /\ q.kind = "open"
  /\ nextMarketId' = nextMarketId + 1
  /\ markets' = Append(markets, PlaceBet(market, bet))
  /\ betCredits' = Append(betCredits, 0)
  /\ settleRuns' = Append(settleRuns, 0)
  /\ inflight' = Remove(inflight, s)
  /\ resp' = MarketResponse("open/resumed", Len(markets) + 1)
  /\ UNCHANGED pg
  /\ UNCHANGED <<now, ledger, withdrawalLog, withdrawQueue, deposited, budget,
                 nextBetId>>

\* POST /api/prediction/open, from the arrival of the price index: the rest
\* of getOrCreateMarket, then the bet
OpenResume(s, r) ==
  LET q == inflight[s]
      market == NewMarket(nextMarketId, q.asset, q.expiry, computeTwapCap(r), q.openedAt)
      bet == NewBet(nextBetId, q.userId, q.direction, q.amount)
  IN
  /\ s \in 1..Len(inflight)
  /\ q.kind = "open"
  /\ nextMarketId' = nextMarketId + 1
  /\ markets' = Append(markets, PlaceBet(market, bet))
  /\ nextBetId' = nextBetId + 1
  /\ betCredits' = Append(betCredits, 0)
  /\ settleRuns' = Append(settleRuns, 0)
  /\ inflight' = Remove(inflight, s)
  /\ resp' = MarketResponse("open/resumed", Len(markets) + 1)
  /\ UNCHANGED pg
  /\ UNCHANGED <<now, ledger, withdrawalLog, withdrawQueue, deposited, budget>>

\* ------------------------------------------------------------- settlement
Abs(x) == IF x < 0 THEN -x ELSE x

\* mutant: a difference of exactly 0.2% counts as a draw
Winner_InclusiveTie(strike, settleCap) ==
  IF strike = 0 THEN "draw"
  ELSE IF strike < 0 \/ Abs(settleCap - strike) * 1000 <= 2 * strike THEN "draw"
  ELSE IF settleCap > strike THEN "above" ELSE "below"

\* strike === 0, or |settleCap - strike| / strike < 0.002  -> draw (the
\* quotient is never positive when strike < 0)
Winner(strike, settleCap) ==
  IF strike = 0 THEN "draw"
  ELSE IF strike < 0 \/ Abs(settleCap - strike) * 1000 < 2 * strike THEN "draw"
  ELSE IF settleCap > strike THEN "above" ELSE "below"

\* mutant: no fee is deducted
SettleFee_None(total) == 0

\* fee = total * 0.02
SettleFee(total) == (total * 2) \div 100

\* is bet b credited by a settlement with this winner
IsPaid(b, winner) == winner = "draw" \/ b.direction = winner

\* perTon = winPool > 0 ? distributable / winPool : 0, as a fraction in
\* lowest terms
PerTon(distributable, winPool) ==
  IF winPool > 0
  THEN LET g == Gcd(distributable, winPool)
       IN [num |-> distributable \div g, den |-> winPool \div g]
  ELSE [num |-> 0, den |-> 1]

\* mutant: the fee is deducted from the refunds of a draw as well
Payout_FeeOnDraw(b, winner, distributable, winPool) ==
  IF winner = "draw" THEN (b.stakeTon * 98) \div 100
  ELSE (b.stakeTon * PerTon(distributable, winPool).num)
         \div PerTon(distributable, winPool).den

\* what credit() is called with for bet b: its stake on a draw, else
\* b.stakeTon * perTon
Payout(b, winner, distributable, winPool) ==
  IF winner = "draw" THEN b.stakeTon
  ELSE (b.stakeTon * PerTon(distributable, winPool).num)
         \div PerTon(distributable, winPool).den

\* mutant: the loop stops after the first bet
PayBets_FirstOnly(l, bets, winner, distributable, winPool) ==
  IF bets = <<>> THEN l
  ELSE IF IsPaid(Head(bets), winner)
  THEN credit(l, Head(bets).userId, Payout(Head(bets), winner, distributable, winPool))
  ELSE l

\* the two loops of settleMarket over market.bets
RECURSIVE PayBets(_, _, _, _, _)
PayBets(l, bets, winner, distributable, winPool) ==
  IF bets = <<>> THEN l
  ELSE LET b == Head(bets)
           l1 == IF IsPaid(b, winner)
                 THEN credit(l, b.userId, Payout(b, winner, distributable, winPool))
                 ELSE l
       IN PayBets(l1, Tail(bets), winner, distributable, winPool)

\* mutant: the handler without its expiry check
SettleError_NoExpiryCheck(ms, marketId, t) ==
  IF marketId = 0 THEN "Invalid or missing marketId"
  ELSE IF FindMarketById(ms, marketId) = 0 THEN "Market not found"
  ELSE ""

\* the message of the error the settle handler throws before settleMarket,
\* "" when it throws none
SettleError(ms, marketId, t) ==
  IF marketId = 0 THEN "Invalid or missing marketId"
  ELSE IF FindMarketById(ms, marketId) = 0 THEN "Market not found"
  ELSE IF t < ms[FindMarketById(ms, marketId)].expiry THEN "Market not expired"
  ELSE ""

\* mutant: settleMarket without its status check
Settle_NoStatusCheck(marketId) ==
  /\ budget > 0
  /\ budget' = budget - 1
  /\ IF SettleError(markets, marketId, now) # ""
     THEN /\ resp' = Response("settle", 400, SettleError(markets, marketId, now))
          /\ UNCHANGED inflight
     ELSE /\ inflight' = Append(inflight,
                 [NoRequest EXCEPT !.kind = "settle",
                                   !.market = FindMarketById(markets, marketId)])
          /\ UNCHANGED resp
  /\ UNCHANGED pg
  /\ UNCHANGED <<now, ledger, markets, nextMarketId, nextBetId, withdrawalLog,
                 withdrawQueue, deposited, betCredits, settleRuns>>

\* POST /api/prediction/settle, up to the response or to the pending price
\* query of settleMarket
Settle(marketId) ==
  LET err == SettleError(markets, marketId, now)
      i == FindMarketById(markets, marketId)
  IN
  /\ budget > 0
  /\ budget' = budget - 1
  /\ IF err # ""
     THEN /\ resp' = Response("settle", 400, err)
          /\ UNCHANGED inflight
     ELSE IF markets[i].status # "open"
     THEN /\ resp' = MarketResponse("settle", i)
          /\ UNCHANGED inflight
     ELSE /\ inflight' = Append(inflight,
                 [NoRequest EXCEPT !.kind = "settle", !.market = i])
          /\ UNCHANGED resp
  /\ UNCHANGED pg
  /\ UNCHANGED <<now, ledger, markets, nextMarketId, nextBetId, withdrawalLog,
                 withdrawQueue, deposited, betCredits, settleRuns>>

\* mutant: settlement moves the strike to the settle index
SettleResume_MovesStrike(s, r) ==
  LET q == inflight[s]
      i == q.market
      market == markets[i]
      settleCap == computeTwapCap(r)
      winner == Winner(market.strike, settleCap)
      A == market.pools.above
      B == market.pools.below
      total == A + B
      fee == SettleFee(total)
      distributable == total - fee
      winPool == IF winner = "above" THEN A ELSE B
  IN
  /\ s \in 1..Len(inflight)
  /\ q.kind = "settle"
  /\ ledger' = PayBets(ledger, market.bets, winner, distributable, winPool)
  /\ markets' = [markets EXCEPT ![i] =
                   [@ EXCEPT !.status = "settled", !.settleCap = settleCap,
                             !.strike = settleCap,
                             !.feeCollected = fee]]
  /\ betCredits' = [id \in 1..Len(betCredits) |->
                      IF \E k \in 1..Len(market.bets) :
                           market.bets[k].id = id /\ IsPaid(market.bets[k], winner)
                      THEN betCredits[id] + 1 ELSE betCredits[id]]
  /\ settleRuns' = [settleRuns EXCEPT ![i] = @ + 1]
  /\ inflight' = Remove(inflight, s)
  /\ resp' = MarketResponse("settle/resumed", i)
  /\ UNCHANGED pg
  /\ UNCHANGED <<now, nextMarketId, nextBetId, withdrawalLog, withdrawQueue,
                 deposited, budget>>

\* settleMarket from the arrival of the price index to the response
SettleResume(s, r) ==
  LET q == inflight[s]
      i == q.market
      market == markets[i]
      settleCap == computeTwapCap(r)
      winner == Winner(market.strike, settleCap)
      A == market.pools.above
      B == market.pools.below
      total == A + B
      fee == SettleFee(total)
      distributable == total - fee
      winPool == IF winner = "above" THEN A ELSE B
  IN
  /\ s \in 1..Len(inflight)
  /\ q.kind = "settle"
  /\ ledger' = PayBets(ledger, market.bets, winner, distributable, winPool)
  /\ markets' = [markets EXCEPT ![i] =
                   [@ EXCEPT !.status = "settled", !.settleCap = settleCap,
                             !.feeCollected = fee]]
  /\ betCredits' = [id \in 1..Len(betCredits) |->
                      IF \E k \in 1..Len(market.bets) :
                           market.bets[k].id = id /\ IsPaid(market.bets[k], winner)
                      THEN betCredits[id] + 1 ELSE betCredits[id]]
  /\ settleRuns' = [settleRuns EXCEPT ![i] = @ + 1]
  /\ inflight' = Remove(inflight, s)
  /\ resp' = MarketResponse("settle/resumed", i)
  /\ UNCHANGED pg
  /\ UNCHANGED <<now, nextMarketId, nextBetId, withdrawalLog, withdrawQueue,
                 deposited, budget>>

\* the passage of time
Tick(d, horizon) ==
  /\ now + d <= horizon
  /\ now' = now + d
  /\ UNCHANGED pg
  /\ UNCHANGED <<ledger, markets, nextMarketId, nextBetId, withdrawalLog,
                 withdrawQueue, inflight, resp, deposited, budget,
                 betCredits, settleRuns>>

\* ------------------------------------------------------- the request mix
DepositAmounts == {3 * Scale}
StakeAmounts == {t * Scale : t \in StakeTon}
AssetInputs == {"GIFTS"}
ExpiryInputs == {1}
MarketIdInputs == 1..2
WithdrawAmounts == {2 * Scale}

Next ==
  \/ \E u \in Users, a \in DepositAmounts : Deposit(u, a)
  \/ \E u \in Users, as \in AssetInputs, d \in Directions,
        a \in StakeAmounts, e \in ExpiryInputs : OpenBet(u, as, d, a, e)
  \/ \E s \in 1..Len(inflight), r \in ProviderResults : OpenResume(s, r)
  \/ \E id \in MarketIdInputs : Settle(id)
  \/ \E s \in 1..Len(inflight), r \in ProviderResults : SettleResume(s, r)
  \/ \E u \in Users, a \in WithdrawAmounts : Withdraw(u, "EQaddr", a)
  \/ Tick(MinuteMs, MaxMinutes * MinuteMs)

Spec == Init /\ [][Next]_vars

\* What the server does without a client: a pending price query returns
\* (computeTwapCap resolves whether the lookup succeeds or throws) and the
\* suspended handler runs on; time passes.  Requests are sent by clients, and
\* nothing makes a client send one.
FairSpec ==
  /\ Spec
  /\ WF_vars(\E s \in 1..Len(inflight), r \in ProviderResults : OpenResume(s, r))
  /\ WF_vars(\E s \in 1..Len(inflight), r \in ProviderResults : SettleResume(s, r))
  /\ WF_vars(Tick(MinuteMs, MaxMinutes * MinuteMs))

\* ------------------------------------------- the withdrawal limiter alone
LimitDeposits == {3500 * Scale}
LimitWithdrawAmounts == {250 * Scale, 500 * Scale}

InitLimits ==
  /\ now = 0
  /\ ledger = [u \in {} |-> 0]
  /\ markets = <<>>
  /\ nextMarketId = 1
  /\ nextBetId = 1
  /\ withdrawalLog = [u \in {} |-> <<>>]
  /\ withdrawQueue = <<>>
  /\ inflight = <<>>
  /\ resp = Response("none", 0, "")
  /\ deposited = 0
  /\ budget = MaxLimitRequests
  /\ betCredits = <<>>
  /\ settleRuns = <<>>
  /\ pgPool = FALSE
  /\ balances = [u \in {} |-> 0]
  /\ pgQueries = <<>>

\* requests the handler refuses for their fields: no userId, no destination,
\* no amount
InvalidWithdrawals == {<<"", "EQaddr", 250 * Scale>>, <<"u1", "", 250 * Scale>>,
                       <<"u1", "EQaddr", 0>>}

NextLimits ==
  \/ \E a \in LimitDeposits : deposited = 0 /\ Deposit("u1", a)
  \/ \E a \in LimitWithdrawAmounts : Withdraw("u1", "EQaddr", a)
  \/ \E w \in InvalidWithdrawals : Withdraw(w[1], w[2], w[3])
  \/ Tick(dayMs, MaxDays * dayMs)

SpecLimits == InitLimits /\ [][NextLimits]_vars

\* ------------------------------------------------- settlement of a market
\* One expired market whose bets the users funded with deposits of exactly
\* their stakes, and the settle requests for it.
MaxBets == 2
MaxSettles == 1

\* index values at creation and at settlement: below, on and above the 0.2%
\* band around the strikes
StrikeInputs == {0, 1, 500, 1000}
SettleIndexes == {ProviderThrows, 0, 1, 2, 499, 500, 501, 997, 998, 999,
                  1000, 1001, 1002, 1003, 2000}

BetChoices == [userId : Users, direction : Directions, stakeTon : StakeAmounts]

\* the accepted open-bet requests of the market, in order
SettleMixes ==
  UNION {[1..n -> BetChoices] : n \in 1..MaxBets}
    \cup {<<[userId |-> "u1", direction |-> "above", stakeTon |-> 30 * Scale]>>,
          <<[userId |-> "u1", direction |-> "above", stakeTon |-> 10 * Scale],
            [userId |-> "u2", direction |-> "below", stakeTon |-> 10 * Scale]>>}

\* the market after the first k requests of mix
RECURSIVE MarketOf(_, _, _)
MarketOf(strike, mix, k) ==
  IF k = 0 THEN NewMarket(1, "GIFTS", MinuteMs, strike, 0)
  ELSE PlaceBet(MarketOf(strike, mix, k - 1),
                NewBet(k, mix[k].userId, mix[k].direction, mix[k].stakeTon))

InitSettle ==
  \E strike \in StrikeInputs, mix \in SettleMixes :
    /\ now = MinuteMs
    /\ ledger = [u \in {mix[k].userId : k \in 1..Len(mix)} |-> 0]
    /\ markets = <<MarketOf(strike, mix, Len(mix))>>
    /\ nextMarketId = 2
    /\ nextBetId = Len(mix) + 1
    /\ withdrawalLog = [u \in {} |-> <<>>]
    /\ withdrawQueue = <<>>
    /\ inflight = <<>>
    /\ resp = MarketResponse(IF Len(mix) = 1 THEN "open/resumed" ELSE "open", 1)
    /\ deposited = MarketOf(strike, mix, Len(mix)).pools.above
                     + MarketOf(strike, mix, Len(mix)).pools.below
    /\ budget = MaxSettles
    /\ betCredits = [k \in 1..Len(mix) |-> 0]
    /\ settleRuns = <<0>>
    /\ pgPool = FALSE
    /\ balances = [u \in {} |-> 0]
    /\ pgQueries = <<>>

NextSettle ==
  \/ Settle(1)
  \/ \E s \in 1..Len(inflight), r \in SettleIndexes : SettleResume(s, r)

SpecSettle == InitSettle /\ [][NextSettle]_vars

\* ------------------------------------------- open-bet requests of any kind
\* The fields of the request as the handler holds them after its conversions
\* (a missing or empty field is "", a missing or unparsable number is 0).
MaxOpenRequests == 4

OpenUserInputs == {"", "u1"}
OpenAssetInputs == {"GIFTS", "DOGE"}
OpenDirectionInputs == {"above", "sideways"}
OpenAmountInputs == {-Scale, 0, Scale, 5 * Scale}
OpenExpiryInputs == {-1, 0, 1}

InitOpen ==
  /\ now = 0
  /\ ledger = [u \in {} |-> 0]
  /\ markets = <<>>
  /\ nextMarketId = 1
  /\ nextBetId = 1
  /\ withdrawalLog = [u \in {} |-> <<>>]
  /\ withdrawQueue = <<>>
  /\ inflight = <<>>
  /\ resp = Response("none", 0, "")
  /\ deposited = 0
  /\ budget = MaxOpenRequests
  /\ betCredits = <<>>
  /\ settleRuns = <<>>
  /\ pgPool = FALSE
  /\ balances = [u \in {} |-> 0]
  /\ pgQueries = <<>>

NextOpen ==
  \/ \E a \in DepositAmounts : Deposit("u1", a)
  \/ \E u \in OpenUserInputs, as \in OpenAssetInputs, d \in OpenDirectionInputs,
        a \in OpenAmountInputs, e \in OpenExpiryInputs : OpenBet(u, as, d, a, e)
  \/ \E s \in 1..Len(inflight), r \in ProviderResults : OpenResume(s, r)

SpecOpen == InitOpen /\ [][NextOpen]_vars

\* ------------------------------------------------ the admin and the queue
\* A user who withdraws and an administrator (or anybody else) who calls the
\* admin routes.
MaxAdminRequests == 5

SecretInputs == {"", "guess", ADMIN_SECRET}
\* ids of the process requests: the clock readings an entry can carry, and
\* one that no entry carries
WithdrawalIdInputs == {0, MinuteMs, 7}
TxHashInputs == {"", "tx1", "tx2"}

InitAdmin ==
  /\ now = 0
  /\ ledger = [u \in {} |-> 0]
  /\ markets = <<>>
  /\ nextMarketId = 1
  /\ nextBetId = 1
  /\ withdrawalLog = [u \in {} |-> <<>>]
  /\ withdrawQueue = <<>>
  /\ inflight = <<>>
  /\ resp = Response("none", 0, "")
  /\ deposited = 0
  /\ budget = MaxAdminRequests
  /\ betCredits = <<>>
  /\ settleRuns = <<>>
  /\ pgPool = FALSE
  /\ balances = [u \in {} |-> 0]
  /\ pgQueries = <<>>

NextAdmin ==
  \/ \E a \in DepositAmounts : deposited = 0 /\ Deposit("u1", a)
  \/ Withdraw("u1", "EQaddr", Scale)
  \/ \E route \in AdminGetRoutes, h \in {"", ADMIN_SECRET}, q \in SecretInputs :
        AdminGet(route, h, q)
  \/ \E h \in {"", ADMIN_SECRET}, b \in SecretInputs,
        id \in WithdrawalIdInputs, tx \in TxHashInputs :
        AdminProcess(h, "", b, id, tx)
  \/ Tick(MinuteMs, MaxMinutes * MinuteMs)

SpecAdmin == InitAdmin /\ [][NextAdmin]_vars

\* ------------------------------------------------------- the ledger alone
\* the sum of the balances of the users us
RECURSIVE SumBalances(_, _)
SumBalances(l, us) ==
  IF us = {} THEN 0
  ELSE LET u == CHOOSE x \in us : TRUE
       IN l[u] + SumBalances(l, us \ {u})

\* A ledger that holds records for some users, and callers of its functions.
MaxLedgerCalls == 2

LedgerBalances == {0, Scale, 2 * Scale}
LedgerAmounts == {-Scale, 0, Scale, 2 * Scale}

InitLedger ==
  \E known \in SUBSET Users :
    \E l \in [known -> LedgerBalances] :
      /\ now = 0
      /\ ledger = l
      /\ markets = <<>>
      /\ nextMarketId = 1
      /\ nextBetId = 1
      /\ withdrawalLog = [u \in {} |-> <<>>]
      /\ withdrawQueue = <<>>
      /\ inflight = <<>>
      /\ resp = Response("none", 0, "")
      /\ deposited = SumBalances(l, known)
      /\ budget = MaxLedgerCalls
      /\ betCredits = <<>>
      /\ settleRuns = <<>>
      /\ pgPool = FALSE
      /\ balances = [u \in {} |-> 0]
      /\ pgQueries = <<>>

NextLedger ==
  \/ \E u \in Users, a \in LedgerAmounts : DebitCall(u, a)
  \/ \E u \in Users, a \in LedgerAmounts : CreditCall(u, a)
  \/ \E u \in Users \cup {""} : BalanceRequest(u)

SpecLedger == InitLedger /\ [][NextLedger]_vars

\* ------------------------------------------------- amounts as JS Numbers
\* The program's amounts are JS Numbers: IEEE-754 binary64 values, whose
\* significand has MantissaBits bits and whose sums, differences and products
\* are rounded to nearest, ties to even.  A natural number is a sequence of
\* limbs below Base, least significant first, without leading zero limbs; a
\* Number is [m |-> limbs, e |-> exponent] with value m * 2^e and m odd, or
\* Zero.  The exponent range (overflow, subnormals) is not modelled: no input
\* below comes near it.
MantissaBits == 53

LimbBits == 5 * 3
Base == 2 ^ LimbBits

Limb(a, i) == IF i >= 1 /\ i <= Len(a) THEN a[i] ELSE 0

RECURSIVE LTrim(_)
LTrim(a) ==
  IF a = <<>> \/ a[Len(a)] # 0 THEN a ELSE LTrim(SubSeq(a, 1, Len(a) - 1))

RECURSIVE LAddFrom(_, _, _, _)
LAddFrom(a, b, i, carry) ==
  IF i > Len(a) /\ i > Len(b)
  THEN IF carry = 0 THEN <<>> ELSE <<carry>>
  ELSE LET t == Limb(a, i) + Limb(b, i) + carry
       IN <<t % Base>> \o LAddFrom(a, b, i + 1, t \div Base)

LAdd(a, b) == LAddFrom(a, b, 1, 0)

\* a - b for a >= b
RECURSIVE LSubFrom(_, _, _, _)
LSubFrom(a, b, i, borrow) ==
  IF i > Len(a) THEN <<>>
  ELSE LET t == Limb(a, i) - Limb(b, i) - borrow
       IN <<t % Base>> \o LSubFrom(a, b, i + 1, IF t < 0 THEN 1 ELSE 0)

LSub(a, b) == LTrim(LSubFrom(a, b, 1, 0))

LLess(a, b) ==
  \/ Len(a) < Len(b)
  \/ /\ Len(a) = Len(b)
     /\ \E i \in 1..Len(a) :
          /\ a[i] < b[i]
          /\ \A j \in (i + 1)..Len(a) : a[j] = b[j]

\* a * d for one limb d
RECURSIVE LMulSmallFrom(_, _, _, _)
LMulSmallFrom(a, d, i, carry) ==
  IF i > Len(a)
  THEN IF carry = 0 THEN <<>> ELSE <<carry>>
  ELSE LET t == a[i] * d + carry
       IN <<t % Base>> \o LMulSmallFrom(a, d, i + 1, t \div Base)

LMulSmall(a, d) == LTrim(LMulSmallFrom(a, d, 1, 0))

RECURSIVE LMulFrom(_, _, _)
LMulFrom(a, b, j) ==
  IF j > Len(b) THEN <<>>
  ELSE LTrim(LAdd(LMulSmall(a, b[j]), <<0>> \o LMulFrom(a, b, j + 1)))

LMul(a, b) == LMulFrom(a, b, 1)

\* a * 2^k and the whole part of a / 2^k
LShl(a, k) ==
  IF a = <<>> THEN <<>>
  ELSE [i \in 1..(k \div LimbBits) |-> 0] \o LMulSmall(a, 2 ^ (k % LimbBits))

LShr(a, k) ==
  LET q == k \div LimbBits
      r == k % LimbBits
  IN LTrim([i \in 1..(Len(a) - q) |->
              (a[i + q] \div (2 ^ r))
                + (Limb(a, i + q + 1) % (2 ^ r)) * (2 ^ (LimbBits - r))])

\* the bit of weight 2^(i-1), and the number of bits of a # 0
LBit(a, i) ==
  (Limb(a, (i - 1) \div LimbBits + 1) \div (2 ^ ((i - 1) % LimbBits))) % 2

LBitLen(a) ==
  LimbBits * (Len(a) - 1)
    + (CHOOSE k \in 1..LimbBits : 2 ^ (k - 1) <= a[Len(a)] /\ a[Len(a)] < 2 ^ k)

LowBitsZero(a, k) == \A i \in 1..k : LBit(a, i) = 0

Zero == [m |-> <<>>, e |-> 0]

\* the Number m * 2^e in its canonical form: m odd
Canon(a, e) ==
  IF a = <<>> THEN Zero
  ELSE LET tz == CHOOSE t \in 0..(LBitLen(a) - 1) :
                   LBit(a, t + 1) = 1 /\ LowBitsZero(a, t)
       IN [m |-> LShr(a, tz), e |-> e + tz]

\* the Number nearest to a * 2^e, ties to the even significand
NumRound(limbs, e) ==
  LET a == LTrim(limbs)
      drop == LBitLen(a) - MantissaBits
  IN IF a = <<>> THEN Zero
     ELSE IF drop <= 0 THEN Canon(a, e)
     ELSE LET kept == LShr(a, drop)
              up == /\ LBit(a, drop) = 1
                    /\ (~LowBitsZero(a, drop - 1) \/ LBit(kept, 1) = 1)
          IN Canon(IF up THEN LAdd(kept, <<1>>) ELSE kept, e + drop)

\* the significand of x over the smaller of the exponents of x and y
Aligned(x, y) == LShl(x.m, x.e - (IF x.e < y.e THEN x.e ELSE y.e))

NumAdd(x, y) ==
  IF x = Zero THEN y
  ELSE IF y = Zero THEN x
  ELSE NumRound(LAdd(Aligned(x, y), Aligned(y, x)),
                IF x.e < y.e THEN x.e ELSE y.e)

NumLess(x, y) ==
  IF y = Zero THEN FALSE
  ELSE IF x = Zero THEN TRUE
  ELSE LLess(Aligned(x, y), Aligned(y, x))

\* x - y for x >= y
NumSub(x, y) ==
  IF y = Zero THEN x
  ELSE NumRound(LSub(Aligned(x, y), Aligned(y, x)),
                IF x.e < y.e THEN x.e ELSE y.e)

NumMul(x, y) ==
  IF x = Zero \/ y = Zero THEN Zero
  ELSE NumRound(LMul(x.m, y.m), x.e + y.e)

\* the first k limbs of the fraction r / den, least significant first; the
\* lowest bit also stands for everything below it
RECURSIVE FractionLimbs(_, _, _)
FractionLimbs(r, den, k) ==
  LET chunk == (r * Base) \div den
      rest == (r * Base) % den
  IN IF k = 1
     THEN <<IF rest # 0 /\ chunk % 2 = 0 THEN chunk + 1 ELSE chunk>>
     ELSE FractionLimbs(rest, den, k - 1) \o <<chunk>>

\* the Number that the decimal literal num/den denotes, for den < 2^16 and
\* 2^-60 < num/den < Base
Number(num, den) ==
  NumRound(FractionLimbs(num % den, den, 8)
             \o (IF num \div den = 0 THEN <<>> ELSE <<num \div den>>),
           -(8 * LimbBits))

\* getBal, credit and debit over Numbers
getBalNumber(l, userId) == IF userId \in DOMAIN l THEN l[userId] ELSE Zero

creditNumber(l, userId, ton) ==
  LedgerSet(l, userId, NumAdd(getBalNumber(l, userId), ton))

debitErrorNumber(l, userId, ton) ==
  IF ~NumLess(Zero, ton) THEN "Invalid debit amount"
  ELSE IF NumLess(getBalNumber(l, userId), ton) THEN "Insufficient balance"
  ELSE ""

debitNumber(l, userId, ton) ==
  LedgerSet(l, userId, NumSub(getBalNumber(l, userId), ton))

WITHDRAW_FEE_RATE == Number(WITHDRAW_FEE_PERCENT, 100)

\* a caller debits ton and, if that succeeded, at once credits ton back
DebitThenCredit(userId, ton) ==
  /\ budget > 0
  /\ budget' = budget - 1
  /\ IF debitErrorNumber(ledger, userId, ton) # ""
     THEN /\ resp' = [op |-> "debit", code |-> 400,
                      msg |-> debitErrorNumber(ledger, userId, ton), market |-> 0]
          /\ UNCHANGED ledger
     ELSE /\ ledger' = creditNumber(debitNumber(ledger, userId, ton), userId, ton)
          /\ resp' = [op |-> "debit/credit", code |-> 200, msg |-> "", market |-> 0]
  /\ UNCHANGED pg
  /\ UNCHANGED <<now, markets, nextMarketId, nextBetId, withdrawalLog,
                 withdrawQueue, inflight, deposited, betCredits, settleRuns>>

\* the sum of the logged amounts newer than the cutoff, added as the code
\* adds them: from 0, in log order
RECURSIVE SumWithinNumber(_, _, _)
SumWithinNumber(log, n, cutoff) ==
  IF n = 0 THEN Zero
  ELSE IF log[n].ts >= cutoff
       THEN NumAdd(SumWithinNumber(log, n - 1, cutoff), log[n].amountTon)
       ELSE SumWithinNumber(log, n - 1, cutoff)

\* POST /api/wallet/withdraw with the amount as a Number
WithdrawNumber(userId, to, amt) ==
  LET log == LogOf(withdrawalLog, userId)
      dailyUsed == SumWithinNumber(log, Len(log), now - dayMs)
      monthlyUsed == SumWithinNumber(log, Len(log), now - monthMs)
      feeTon == NumMul(amt, WITHDRAW_FEE_RATE)
      netTon == NumSub(amt, feeTon)
      err == IF userId = "" \/ to = "" \/ ~NumLess(Zero, amt)
               THEN "Invalid withdrawal request"
             ELSE IF NumLess(Number(WITHDRAW_LIMIT_DAILY_TON, 1), NumAdd(amt, dailyUsed))
               THEN "Daily withdrawal limit exceeded"
             ELSE IF NumLess(Number(WITHDRAW_LIMIT_MONTHLY_TON, 1), NumAdd(amt, monthlyUsed))
               THEN "Monthly withdrawal limit exceeded"
             ELSE debitErrorNumber(ledger, userId, amt)
  IN /\ budget > 0
     /\ budget' = budget - 1
     /\ IF err # ""
        THEN /\ resp' = Response("withdraw", 400, err)
             /\ UNCHANGED <<ledger, withdrawalLog, withdrawQueue>>
        ELSE /\ ledger' = debitNumber(ledger, userId, amt)
             /\ withdrawalLog' =
                  [u \in DOMAIN withdrawalLog \cup {userId} |->
                     IF u = userId
                     THEN Append(log, [ts |-> now, amountTon |-> amt])
                     ELSE withdrawalLog[u]]
             /\ withdrawQueue' =
                  Append(withdrawQueue,
                         [id |-> now, userId |-> userId, amountTon |-> amt,
                          feeTon |-> feeTon, netTon |-> netTon, to |-> to,
                          status |-> "pending", requestedAt |-> now,
                          txHash |-> "", completedAt |-> Undefined])
             /\ resp' = Response("withdraw", 200, "")
     /\ UNCHANGED pg
     /\ UNCHANGED <<now, markets, nextMarketId, nextBetId, inflight, deposited,
                    betCredits, settleRuns>>

MaxNumberCalls == 2
MaxTenths == 32

\* balances and amounts written with one decimal place
NumberBalances == {Number(k, 10) : k \in {9, 12, 31, 40}}
NumberAmounts == {Number(k, 10) : k \in 1..MaxTenths}

InitNumber ==
  \E b \in NumberBalances :
    /\ now = 0
    /\ ledger = [u \in {"u1"} |-> b]
    /\ markets = <<>>
    /\ nextMarketId = 1
    /\ nextBetId = 1
    /\ withdrawalLog = [u \in {} |-> <<>>]
    /\ withdrawQueue = <<>>
    /\ inflight = <<>>
    /\ resp = Response("none", 0, "")
    /\ deposited = 0
    /\ budget = MaxNumberCalls
    /\ betCredits = <<>>
    /\ settleRuns = <<>>
    /\ pgPool = FALSE
    /\ balances = [u \in {} |-> 0]
    /\ pgQueries = <<>>

NextNumber ==
  \/ \E a \in NumberAmounts : DebitThenCredit("u1", a)
  \/ \E a \in NumberAmounts : WithdrawNumber("u1", "EQaddr", a)

SpecNumber == InitNumber /\ [][NextNumber]_vars

\* --------------------------------------------------- the usage windows
\* Withdrawals of 1 TON and limit queries at clock readings around the ends
\* of the daily and the monthly window.
MaxUsageRequests == 4

UsageTimes == {0, 1, dayMs - 1, dayMs, dayMs + 1, monthMs - 1, monthMs, monthMs + 1}

InitUsage ==
  /\ now = 0
  /\ ledger = [u \in {} |-> 0]
  /\ markets = <<>>
  /\ nextMarketId = 1
  /\ nextBetId = 1
  /\ withdrawalLog = [u \in {} |-> <<>>]
  /\ withdrawQueue = <<>>
  /\ inflight = <<>>
  /\ resp = Response("none", 0, "")
  /\ deposited = 0
  /\ budget = MaxUsageRequests
  /\ betCredits = <<>>
  /\ settleRuns = <<>>
  /\ pgPool = FALSE
  /\ balances = [u \in {} |-> 0]
  /\ pgQueries = <<>>

NextUsage ==
  \/ \E a \in DepositAmounts : deposited = 0 /\ Deposit("u1", a)
  \/ Withdraw("u1", "EQaddr", Scale)
  \/ \E u \in Users \cup {""} : LimitsRequest(u)
  \/ \E t \in UsageTimes : t > now /\ Tick(t - now, monthMs + 1)

SpecUsage == InitUsage /\ [][NextUsage]_vars

\* ------------------------------------------------ the persistent store
\* A server started with PG_CONNECTION_STRING: credit and debit also upsert
\* the new balance.
MaxPersistCalls == 3

PersistAmounts == {Scale, 2 * Scale}

InitPersist ==
  /\ now = 0
  /\ ledger = [u \in {} |-> 0]
  /\ markets = <<>>
  /\ nextMarketId = 1
  /\ nextBetId = 1
  /\ withdrawalLog = [u \in {} |-> <<>>]
  /\ withdrawQueue = <<>>
  /\ inflight = <<>>
  /\ resp = Response("none", 0, "")
  /\ deposited = 0
  /\ budget = MaxPersistCalls
  /\ betCredits = <<>>
  /\ settleRuns = <<>>
  /\ pgPool = TRUE
  /\ balances = [u \in {} |-> 0]
  /\ pgQueries = <<>>

NextPersist ==
  \/ \E u \in Users, a \in PersistAmounts : CreditCall(u, a)
  \/ \E u \in Users, a \in PersistAmounts : DebitCall(u, a)
  \/ \E k \in 1..Len(pgQueries) : PgQueryCompletes(k)

SpecPersist == InitPersist /\ [][NextPersist]_vars

\* ================================================================ claims
RECURSIVE SumStakes(_)
SumStakes(bets) ==
  IF bets = <<>> THEN 0 ELSE Head(bets).stakeTon + SumStakes(Tail(bets))

MarketIndexes == 1..Len(markets)

SettleInflightFor(i) ==
  \E k \in 1..Len(inflight) : inflight[k].kind = "settle" /\ inflight[k].market = i

\* C1: under any interleaving of settle requests for one market, the market
\* is settled exactly once and every bet receives its settlement credit
\* (payout or draw refund) at most once.
C1_SettledAtMostOnce ==
  /\ \A i \in MarketIndexes : settleRuns[i] <= 1
  /\ \A id \in 1..Len(betCredits) : betCredits[id] <= 1

\* C2: money is never created: the sum of all balances is at most the total
\* credited by deposits.
C2_NoMoneyCreated == SumBalances(ledger, DOMAIN ledger) <= deposited

\* C3: for every market, open or settled, pools.above + pools.below is the
\* sum of stakeTon over the market's bets.
C3_PoolsMatchBets ==
  \A i \in MarketIndexes :
    markets[i].pools.above + markets[i].pools.below = SumStakes(markets[i].bets)

C3_Witness ==
  \E i \in MarketIndexes :
    /\ markets[i].status = "settled"
    /\ Len(markets[i].bets) >= 2
    /\ markets[i].pools.above > 0
    /\ markets[i].pools.below > 0

RECURSIVE LoggedWithin(_, _, _, _)
LoggedWithin(log, t, window, k) ==
  IF k = 0 THEN 0
  ELSE (IF log[k].ts > t - window THEN log[k].amountTon ELSE 0)
       + LoggedWithin(log, t, window, k - 1)

\* C5: for every user, at every time, the withdrawals logged within the
\* trailing 24h sum to at most the daily limit and those within the trailing
\* 30 days to at most the monthly limit.
C5_WithinLimits ==
  \A u \in DOMAIN withdrawalLog :
    LET log == withdrawalLog[u]
    IN /\ LoggedWithin(log, now, dayMs, Len(log)) <= WITHDRAW_LIMIT_DAILY
       /\ LoggedWithin(log, now, 30 * dayMs, Len(log)) <= WITHDRAW_LIMIT_MONTHLY

\* two withdrawals accepted at the same instant fill the daily allowance and
\* a third request at that instant is refused
C5_Witness ==
  /\ resp = Response("withdraw", 400, "Daily withdrawal limit exceeded")
  /\ \E u \in DOMAIN withdrawalLog :
       /\ Len(withdrawalLog[u]) >= 2
       /\ \A k \in 1..Len(withdrawalLog[u]) : withdrawalLog[u][k].ts = now
       /\ SumWithin(withdrawalLog[u], now, dayMs) = WITHDRAW_LIMIT_DAILY

\* C6: a valid withdrawal request of amount a is refused with the daily-limit
\* message iff a + dailyUsed > dailyLimit, otherwise with the monthly-limit
\* message iff a + monthlyUsed > monthlyLimit; a request that lands exactly
\* on a limit passes the limit check.
C6_LimitBoundary ==
  [][\A a \in LimitWithdrawAmounts :
       Withdraw("u1", "EQaddr", a) =>
         LET used == getWithdrawUsage(withdrawalLog, "u1", now)
             overDaily == a + used.dailyUsed > WITHDRAW_LIMIT_DAILY
             overMonthly == a + used.monthlyUsed > WITHDRAW_LIMIT_MONTHLY
         IN /\ (resp'.msg = "Daily withdrawal limit exceeded") <=> overDaily
            /\ (resp'.msg = "Monthly withdrawal limit exceeded")
                 <=> (~overDaily /\ overMonthly)
            /\ (~overDaily /\ ~overMonthly /\ getBal(ledger, "u1") >= a)
                 => resp'.code = 200]_vars

\* a request was accepted that brings the daily usage exactly to the limit
C6_Witness ==
  /\ resp = Response("withdraw", 200, "")
  /\ SumWithin(LogOf(withdrawalLog, "u1"), now, dayMs) = WITHDRAW_LIMIT_DAILY
  /\ SumWithin(LogOf(withdrawalLog, "u1"), now, monthMs) = WITHDRAW_LIMIT_MONTHLY

\* C7: at most one market exists per distinct (asset, expiry) pair.
C7_OneMarketPerAssetExpiry ==
  \A i, j \in MarketIndexes :
    (markets[i].asset = markets[j].asset /\ markets[i].expiry = markets[j].expiry)
      => i = j

\* C8: no bet is appended to a market and no pool of it changes once a settle
\* request for it has passed its expiry check, or once it is settled.
C8_NoBetOnceSettlementBegan ==
  [][\A i \in MarketIndexes :
       (markets[i].status = "settled" \/ SettleInflightFor(i))
         => /\ markets'[i].bets = markets[i].bets
            /\ markets'[i].pools = markets[i].pools]_vars

\* an open-bet request was accepted while a settlement was waiting for its
\* price
C8_Witness ==
  \E k1, k2 \in 1..Len(inflight) :
    /\ k1 < k2
    /\ inflight[k1].kind = "settle"
    /\ inflight[k2].kind = "open"
    /\ inflight[k2].asset = markets[inflight[k1].market].asset

\* the sum of what a settlement of market m at index value cap credits to
\* user u, from the rules of settlement
RECURSIVE DueTo(_, _, _, _)
DueTo(u, m, cap, k) ==
  IF k = 0 THEN 0
  ELSE LET b == m.bets[k]
           w == Winner(m.strike, cap)
           total == m.pools.above + m.pools.below
           pool == IF w = "above" THEN m.pools.above ELSE m.pools.below
           pay == IF b.userId # u THEN 0
                  ELSE IF w = "draw" THEN b.stakeTon
                  ELSE IF b.direction = w
                  THEN (b.stakeTon * 98 * (total \div Scale)) \div (100 * (pool \div Scale))
                  ELSE 0
       IN pay + DueTo(u, m, cap, k - 1)

\* C9: payout application is atomic with the open->settled transition: the
\* step that settles a market applies every credit of the settlement, and a
\* balance only grows by a deposit or in a step that applies all credits of a
\* settlement and leaves the market settled.
C9_SettlementAtomic ==
  [][/\ \A i \in MarketIndexes :
          (markets[i].status = "open" /\ markets'[i].status = "settled")
            => \A u \in Users :
                 getBal(ledger', u) = getBal(ledger, u)
                   + DueTo(u, markets[i], markets'[i].settleCap, Len(markets[i].bets))
     /\ ((\E u \in Users : getBal(ledger', u) > getBal(ledger, u))
           /\ deposited' = deposited)
          => \E i \in MarketIndexes :
               /\ markets'[i].status = "settled"
               /\ \A u \in Users :
                    getBal(ledger', u) = getBal(ledger, u)
                      + DueTo(u, markets[i], markets'[i].settleCap, Len(markets[i].bets))
    ]_vars

\* a settled market whose settlement credited two bets
C9_Witness ==
  \E i \in MarketIndexes :
    /\ markets[i].status = "settled"
    /\ Cardinality({k \in 1..Len(markets[i].bets) :
                      betCredits[markets[i].bets[k].id] >= 1}) >= 2

\* C10: settling a market that is already settled changes no balance, applies
\* no credit, leaves the market as the first settlement recorded it and
\* returns that market.
C10_SettleSettledIsNoOp ==
  [][\A id \in MarketIdInputs :
       LET i == FindMarketById(markets, id)
       IN (Settle(id) /\ i # 0 /\ markets[i].status = "settled")
            => /\ UNCHANGED <<ledger, markets, betCredits, settleRuns, inflight>>
               /\ resp' = MarketResponse("settle", i)]_vars

\* a settle request was answered with a market that was settled before
C10_Witness ==
  \E i \in MarketIndexes :
    /\ resp = MarketResponse("settle", i)
    /\ markets[i].status = "settled"
    /\ markets[i].bets # <<>>
    /\ settleRuns[i] = 1

\* C11: a settle request for a market with now < expiry is answered
\* "Market not expired" and one for an unknown market id "Market not found";
\* in both cases no balance, market, pool or bet changes and no price query
\* is started.
C11_SettleRejected ==
  [][\A id \in MarketIdInputs :
       LET i == FindMarketById(markets, id)
       IN (Settle(id) /\ (i = 0 \/ now < markets[i].expiry))
            => /\ resp' = Response("settle", 400,
                              IF i = 0 THEN "Market not found"
                              ELSE "Market not expired")
               /\ UNCHANGED <<ledger, markets, nextMarketId, nextBetId,
                              inflight, betCredits, settleRuns>>]_vars

\* a settle request for an open market with bets was refused before expiry
C11_Witness ==
  /\ resp = Response("settle", 400, "Market not expired")
  /\ \E i \in MarketIndexes :
       /\ markets[i].status = "open"
       /\ markets[i].bets # <<>>
       /\ now < markets[i].expiry

\* C12: for every open market, once now >= expiry, the market eventually
\* reaches status settled.
C12_SettlementEventuallyRuns ==
  \A i \in 1..MaxRequests :
    (i \in MarketIndexes /\ markets[i].status = "open" /\ now >= markets[i].expiry)
      ~> (i \in MarketIndexes /\ markets[i].status = "settled")

\* what a step credits to user u
Credited(u) == getBal(ledger', u) - getBal(ledger, u)

RECURSIVE SumOver(_, _)
SumOver(f, S) ==
  IF S = {} THEN 0
  ELSE LET x == CHOOSE y \in S : TRUE IN f[x] + SumOver(f, S \ {x})

\* the step completes a settlement run of markets[i]
SettlementRun(i) == settleRuns'[i] = settleRuns[i] + 1

\* the outcome by the rule of the claim, in thousandths of the strike
RuleOutcome(strike, settleIndex) ==
  IF strike = 0 THEN "draw"
  ELSE IF Abs(settleIndex - strike) * 1000 < strike * 2 THEN "draw"
  ELSE IF Abs(settleIndex - strike) * 1000 = strike * 2
  THEN (IF settleIndex > strike THEN "above" ELSE "below")
  ELSE IF settleIndex > strike THEN "above" ELSE "below"

\* C13: a settlement run pays by the outcome draw if strike = 0, draw if
\* |settleIndex - strike| / strike < 0.002, else above if settleIndex > strike,
\* else below (a difference of exactly 0.2% is directional): it credits every
\* bet on a draw and exactly the bets of the outcome's side otherwise, and the
\* credits sum to the whole pool on a draw only.
C13_OutcomeRule ==
  [][\A i \in MarketIndexes :
       SettlementRun(i) =>
         LET m == markets[i]
             w == RuleOutcome(m.strike, markets'[i].settleCap)
         IN /\ \A k \in 1..Len(m.bets) :
                 (betCredits'[m.bets[k].id] = betCredits[m.bets[k].id] + 1)
                   <=> (w = "draw" \/ m.bets[k].direction = w)
            /\ (w = "draw")
                 <=> (SumOver([u \in Users |-> Credited(u)], Users)
                        = m.pools.above + m.pools.below)]_vars

\* a market settled at exactly 0.2% above its strike paid the above side only
C13_Witness ==
  \E i \in MarketIndexes :
    /\ markets[i].status = "settled"
    /\ markets[i].strike = 1000
    /\ markets[i].settleCap = 1002
    /\ \E k1, k2 \in 1..Len(markets[i].bets) :
         /\ markets[i].bets[k1].direction = "above"
         /\ markets[i].bets[k2].direction = "below"
         /\ betCredits[markets[i].bets[k1].id] = 1
         /\ betCredits[markets[i].bets[k2].id] = 0

\* the stakes of the first k bets that user u placed
RECURSIVE OwnStakes(_, _, _)
OwnStakes(u, bets, k) ==
  IF k = 0 THEN 0
  ELSE (IF bets[k].userId = u THEN bets[k].stakeTon ELSE 0)
       + OwnStakes(u, bets, k - 1)

\* C14: on a draw every bet of the market is credited exactly its own stake
\* to its owner, so the credits of the settlement run sum to pools.above +
\* pools.below: no fee is taken.
C14_DrawRefundsStakes ==
  [][\A i \in MarketIndexes :
       (SettlementRun(i)
          /\ RuleOutcome(markets[i].strike, markets'[i].settleCap) = "draw")
         => LET m == markets[i]
            IN /\ \A u \in Users :
                    Credited(u) = OwnStakes(u, m.bets, Len(m.bets))
               /\ \A k \in 1..Len(m.bets) :
                    betCredits'[m.bets[k].id] = betCredits[m.bets[k].id] + 1
               /\ SumOver([u \in Users |-> Credited(u)], Users)
                    = m.pools.above + m.pools.below]_vars

\* a market with bets of both users on both sides was settled within the
\* tolerance of a non-zero strike and both have their stakes back
C14_Witness ==
  /\ Len(markets) = 1
  /\ markets[1].status = "settled"
  /\ markets[1].strike = 1000
  /\ markets[1].settleCap = 1001
  /\ markets[1].pools.above > 0
  /\ markets[1].pools.below > 0
  /\ settleRuns[1] = 1
  /\ \A u \in Users :
       /\ OwnStakes(u, markets[1].bets, Len(markets[1].bets)) > 0
       /\ getBal(ledger, u) = OwnStakes(u, markets[1].bets, Len(markets[1].bets))

\* stake * (total - 0.02 * total) / winPool summed over the first k bets that
\* user u placed on side w; the pools are whole TON
RECURSIVE WinShare(_, _, _, _)
WinShare(u, m, w, k) ==
  IF k = 0 THEN 0
  ELSE (IF m.bets[k].userId = u /\ m.bets[k].direction = w
        THEN ((m.bets[k].stakeTon \div 50) * 49
                * ((m.pools.above + m.pools.below) \div Scale))
               \div (m.pools[w] \div Scale)
        ELSE 0)
       + WinShare(u, m, w, k - 1)

\* C15: on a directional outcome a settlement run credits each winning bet
\* stake * (total - 0.02 * total) / winPool and losing bets nothing; the
\* credits sum to at most 0.98 * total, and to exactly that when winPool > 0.
C15_DirectionalPayout ==
  [][\A i \in MarketIndexes :
       (SettlementRun(i)
          /\ RuleOutcome(markets[i].strike, markets'[i].settleCap) # "draw")
         => LET m == markets[i]
                w == RuleOutcome(m.strike, markets'[i].settleCap)
                total == m.pools.above + m.pools.below
                paid == SumOver([u \in Users |-> Credited(u)], Users)
            IN /\ \A u \in Users : Credited(u) = WinShare(u, m, w, Len(m.bets))
               /\ \A k \in 1..Len(m.bets) :
                    m.bets[k].direction # w
                      => betCredits'[m.bets[k].id] = betCredits[m.bets[k].id]
               /\ paid * 100 <= total * 98
               /\ m.pools[w] > 0 => paid * 100 = total * 98]_vars

\* 10 TON against 10 TON: the winner holds 19.6 TON and the loser nothing
C15_Witness ==
  /\ Len(markets) = 1
  /\ markets[1].status = "settled"
  /\ markets[1].pools = [above |-> 10 * Scale, below |-> 10 * Scale]
  /\ RuleOutcome(markets[1].strike, markets[1].settleCap) = "above"
  /\ settleRuns[1] = 1
  /\ getBal(ledger, "u1") = (196 * Scale) \div 10
  /\ getBal(ledger, "u2") = 0

\* C16: when a directional outcome has winPool = 0, the settlement run makes
\* no payouts and the fee it records as feeCollected is 0.
C16_EmptyWinPoolNoFee ==
  [][\A i \in MarketIndexes :
       LET w == RuleOutcome(markets[i].strike, markets'[i].settleCap)
       IN (SettlementRun(i) /\ w # "draw" /\ markets[i].pools[w] = 0)
            => /\ \A u \in Users : Credited(u) = 0
               /\ markets'[i].feeCollected = 0]_vars

C18_RejectedOpenChangesNothing ==
  [][/\ \A u \in OpenUserInputs, as \in OpenAssetInputs,
          d \in OpenDirectionInputs, a \in OpenAmountInputs,
          e \in OpenExpiryInputs :
          (OpenBet(u, as, d, a, e)
             /\ (\/ u = ""
                 \/ as \notin {"GIFTS", "STICKERS", "TON"}
                 \/ d \notin {"above", "below"}
                 \/ a <= 0
                 \/ e <= 0
                 \/ getBal(ledger, u) < a))
            => /\ resp'.code = 400
               /\ UNCHANGED <<ledger, markets, nextMarketId, nextBetId,
                              inflight, betCredits, settleRuns>>
     /\ (resp' # resp /\ resp'.code = 400)
          => UNCHANGED <<ledger, markets, nextMarketId, nextBetId, inflight>>
     /\ (resp'.op = "open/resumed" /\ inflight' # inflight) => resp'.code = 200
    ]_vars

\* a request with expiryMinutes = 0 of a user who could pay the stake was
\* refused and the balance is intact
C18_Witness ==
  /\ resp = Response("open", 400, "Invalid expiryMinutes")
  /\ getBal(ledger, "u1") = deposited
  /\ deposited > 0

\* the bets recorded in the markets ms (bet ids are unique)
BetSet(ms) == UNION {{ms[i].bets[k] : k \in 1..Len(ms[i].bets)} : i \in 1..Len(ms)}

\* the open-bet requests that have debited their stake and wait for the price
PendingOpens(inf) == {k \in 1..Len(inf) : inf[k].kind = "open"}

\* what a step takes from user u
Debited(u) == getBal(ledger, u) - getBal(ledger', u)

\* C19: every bet recorded and every withdrawal request queued corresponds to
\* exactly one successful debit of the same user for the same amount (made in
\* the same step, or earlier by the request that waited for the price and now
\* records its bet), and every debit is matched by exactly one such record.
C19_RecordsMatchDebits ==
  [][LET newBets == BetSet(markets') \ BetSet(markets)
         newWds == {k \in 1..Len(withdrawQueue') : k > Len(withdrawQueue)}
         newPending == Cardinality(PendingOpens(inflight'))
                         - Cardinality(PendingOpens(inflight))
         added == Cardinality(newBets) + Cardinality(newWds)
                    + (IF newPending > 0 THEN newPending ELSE 0)
     IN /\ BetSet(markets) \subseteq BetSet(markets')
        /\ SubSeq(withdrawQueue', 1, Len(withdrawQueue)) = withdrawQueue
        /\ \A b \in newBets :
             \/ Debited(b.userId) = b.stakeTon /\ newPending = 0
             \/ /\ ledger' = ledger
                /\ \E k \in PendingOpens(inflight) :
                     /\ inflight[k].userId = b.userId
                     /\ inflight[k].amount = b.stakeTon
                     /\ inflight' = Remove(inflight, k)
        /\ \A k \in newWds :
             Debited(withdrawQueue'[k].userId) = withdrawQueue'[k].amountTon
        /\ newPending > 0 =>
             /\ newPending = 1
             /\ inflight' = Append(inflight, inflight'[Len(inflight')])
             /\ Debited(inflight'[Len(inflight')].userId)
                  = inflight'[Len(inflight')].amount
        /\ newPending < 0 => (newPending = -1 /\ Cardinality(newBets) = 1)
        /\ Cardinality(newBets) > 0 =>
             (Cardinality(newBets) = 1 /\ (newPending = -1 \/ added = 1))
        /\ \A u \in Users :
             Debited(u) > 0
               => (added = 1 /\ \A v \in Users \ {u} : Debited(v) = 0)
    ]_vars

\* a user holds a bet recorded after its price query and a queued withdrawal,
\* and the balance is the deposit less the stake and the gross amount
C19_Witness ==
  \E i \in MarketIndexes :
    /\ Len(withdrawQueue) = 1
    /\ withdrawQueue[1].userId = "u1"
    /\ Len(markets) = 1
    /\ Len(markets[i].bets) = 1
    /\ markets[i].bets[1].userId = "u1"
    /\ markets[i].status = "open"
    /\ inflight = <<>>
    /\ \A u \in DOMAIN ledger : u = "u1"
    /\ getBal(ledger, "u1")
         = deposited - markets[i].bets[1].stakeTon - withdrawQueue[1].amountTon

\* C20: a withdrawal request that fails (missing userId or destination,
\* amount <= 0, daily or monthly limit exceeded, insufficient balance) leaves
\* the balances, the withdrawal logs and the withdrawal queue unchanged: it
\* consumes no allowance.
C20_RejectedWithdrawChangesNothing ==
  [][\A w \in InvalidWithdrawals
            \cup {<<"u1", "EQaddr", a>> : a \in LimitWithdrawAmounts} :
       Withdraw(w[1], w[2], w[3]) =>
         LET log == LogOf(withdrawalLog, w[1])
             failed ==
               \/ w[1] = "" \/ w[2] = "" \/ w[3] <= 0
               \/ w[3] + LoggedWithin(log, now, dayMs, Len(log)) > WITHDRAW_LIMIT_DAILY
               \/ w[3] + LoggedWithin(log, now, 30 * dayMs, Len(log))
                    > WITHDRAW_LIMIT_MONTHLY
               \/ getBal(ledger, w[1]) < w[3]
         IN /\ failed <=> resp'.code = 400
            /\ failed => UNCHANGED <<ledger, withdrawalLog, withdrawQueue>>
            /\ failed =>
                 getWithdrawUsage(withdrawalLog', "u1", now)
                   = getWithdrawUsage(withdrawalLog, "u1", now)]_vars

\* a request was refused for the monthly limit and the user still holds the
\* deposit less the amounts logged, all of which are queued
C20_Witness ==
  /\ resp = Response("withdraw", 400, "Monthly withdrawal limit exceeded")
  /\ getBal(ledger, "u1") + WITHDRAW_LIMIT_MONTHLY = deposited
  /\ Len(withdrawQueue) = Len(LogOf(withdrawalLog, "u1"))
  /\ LoggedWithin(LogOf(withdrawalLog, "u1"), now, 30 * dayMs,
                  Len(LogOf(withdrawalLog, "u1"))) = WITHDRAW_LIMIT_MONTHLY

\* C21: completing an id that is not in the queue fails with NotFound and
\* completing an entry that is already completed fails with AlreadyProcessed;
\* in both cases no queue entry changes.
C21_CompletionFailures ==
  [][\A id \in WithdrawalIdInputs, tx \in TxHashInputs :
       LET idx == FindWithdrawal(withdrawQueue, id)
       IN /\ (AdminProcess("", "", ADMIN_SECRET, id, tx) /\ idx = 0)
               => /\ resp'.code = 404
                  /\ UNCHANGED withdrawQueue
          /\ (AdminProcess("", "", ADMIN_SECRET, id, tx) /\ idx # 0
                 /\ withdrawQueue[idx].status = "completed")
               => /\ resp'.code >= 400
                  /\ UNCHANGED withdrawQueue]_vars

\* C22: debit(userId, amount) fails with 'Invalid debit amount' when
\* amount <= 0 and with 'Insufficient balance' when the balance < amount,
\* leaving the balance unchanged; otherwise it decreases the balance by
\* exactly amount, and a debit of the whole balance leaves 0.
C22_DebitContract ==
  [][\A u \in Users, a \in LedgerAmounts :
       DebitCall(u, a) =>
         /\ a <= 0 => (resp'.msg = "Invalid debit amount" /\ ledger' = ledger)
         /\ (a > 0 /\ getBal(ledger, u) < a)
              => (resp'.msg = "Insufficient balance" /\ ledger' = ledger)
         /\ (a > 0 /\ getBal(ledger, u) >= a)
              => /\ resp'.code = 200
                 /\ getBal(ledger', u) = getBal(ledger, u) - a
                 /\ \A v \in Users \ {u} : getBal(ledger', v) = getBal(ledger, v)
         /\ (a > 0 /\ getBal(ledger, u) = a) => getBal(ledger', u) = 0]_vars

\* the whole balance of the only user was debited
C22_Witness ==
  /\ resp = [op |-> "debit", code |-> 200, msg |-> "", market |-> 0]
  /\ budget = MaxLedgerCalls - 1
  /\ DOMAIN ledger = {"u1"}
  /\ ledger["u1"] = 0
  /\ deposited = 2 * Scale

\* C23: credit(userId, amount) fails if amount is negative, leaving the
\* balance unchanged; otherwise it increases the balance by amount.
C23_CreditContract ==
  [][\A u \in Users, a \in LedgerAmounts :
       CreditCall(u, a) =>
         /\ a < 0 => (resp'.code = 400 /\ ledger' = ledger)
         /\ a >= 0 => getBal(ledger', u) = getBal(ledger, u) + a]_vars

\* C24: reading the balance of a user that has no record returns 0 with no
\* error, and reading a balance never changes the ledger: it creates no
\* record.
C24_BalanceOfUnknownUser ==
  [][\A u \in Users :
       BalanceRequest(u) =>
         /\ ledger' = ledger
         /\ DOMAIN ledger' = DOMAIN ledger
         /\ resp'.code = 200
         /\ u \notin DOMAIN ledger => resp'.balanceTon = 0
         /\ u \in DOMAIN ledger => resp'.balanceTon = ledger[u]]_vars

\* the balance of the user without a record was read as 0 and the ledger
\* still holds the other user's record only
C24_Witness ==
  /\ resp = BalanceResponse(0)
  /\ DOMAIN ledger = {"u1"}
  /\ ledger["u1"] = Scale

\* C25: for every balance b and amount a with 0 < a <= b, a successful debit
\* of a followed at once by a credit of a restores the balance to exactly b.
C25_DebitCreditRoundTrip ==
  [][\A a \in NumberAmounts :
       (DebitThenCredit("u1", a) /\ resp'.code = 200)
         => ledger'["u1"] = ledger["u1"]]_vars

\* C28: every withdrawal request in the queue has feeTon + netTon equal to
\* amountTon, with feeTon = amountTon * feeRate, and its gross amount is what
\* was logged for it.
C28_FeePlusNetIsAmount ==
  \A i \in 1..Len(withdrawQueue) :
    /\ withdrawQueue[i].feeTon = NumMul(withdrawQueue[i].amountTon, WITHDRAW_FEE_RATE)
    /\ NumAdd(withdrawQueue[i].feeTon, withdrawQueue[i].netTon)
         = withdrawQueue[i].amountTon
    /\ \E k \in 1..Len(LogOf(withdrawalLog, withdrawQueue[i].userId)) :
         LogOf(withdrawalLog, withdrawQueue[i].userId)[k]
           = [ts |-> withdrawQueue[i].requestedAt,
              amountTon |-> withdrawQueue[i].amountTon]

\* C26: an admin request that carries the correct secret in the
\* X-Admin-Secret header, and not in the query string or the body, is
\* authorized on the four admin routes: it is not answered 403.
C26_HeaderSecretAuthorizes ==
  [][/\ \A route \in AdminGetRoutes :
          AdminGet(route, ADMIN_SECRET, "") => resp'.code # 403
     /\ \A id \in WithdrawalIdInputs, tx \in TxHashInputs :
          AdminProcess(ADMIN_SECRET, "", "", id, tx) => resp'.code # 403]_vars

\* C29: a completion request changes nothing but the status, transaction
\* reference and completion time of the one entry it names: every balance,
\* every withdrawal log and every user's limit usage stay as they were.
C29_CompletionFrame ==
  [][\A h \in {"", ADMIN_SECRET}, b \in SecretInputs,
        id \in WithdrawalIdInputs, tx \in TxHashInputs :
       AdminProcess(h, "", b, id, tx) =>
         /\ ledger' = ledger
         /\ withdrawalLog' = withdrawalLog
         /\ \A u \in Users :
              getWithdrawUsage(withdrawalLog', u, now')
                = getWithdrawUsage(withdrawalLog, u, now)
         /\ Len(withdrawQueue') = Len(withdrawQueue)
         /\ \A i \in 1..Len(withdrawQueue) :
              /\ [withdrawQueue'[i] EXCEPT
                    !.status = withdrawQueue[i].status,
                    !.txHash = withdrawQueue[i].txHash,
                    !.completedAt = withdrawQueue[i].completedAt] = withdrawQueue[i]
              /\ withdrawQueue'[i] # withdrawQueue[i]
                   => /\ withdrawQueue[i].id = id
                      /\ \A j \in 1..Len(withdrawQueue) :
                           j # i => withdrawQueue'[j] = withdrawQueue[j]]_vars

\* a withdrawal of 1 TON was completed and the balance is still the
\* deposit less the gross amount
C29_Witness ==
  /\ resp = Response("process", 200, "")
  /\ Len(withdrawQueue) = 1
  /\ withdrawQueue[1].status = "completed"
  /\ withdrawQueue[1].txHash = "tx1"
  /\ deposited = 3 * Scale
  /\ getBal(ledger, "u1") = 2 * Scale
  /\ Len(LogOf(withdrawalLog, "u1")) = 1

\* C30: no entry ever leaves the queue or changes its place, a status is
\* pending or completed and never goes from completed back to pending, and
\* a completed entry keeps its status, transaction reference and completion
\* time whatever requests follow.
C30_QueueOnlyMovesForward ==
  [][/\ Len(withdrawQueue') >= Len(withdrawQueue)
     /\ \A i \in 1..Len(withdrawQueue) :
          /\ withdrawQueue'[i].id = withdrawQueue[i].id
          /\ withdrawQueue'[i].status \in {"pending", "completed"}
          /\ withdrawQueue[i].status = "completed"
               => /\ withdrawQueue'[i].status = "completed"
                  /\ withdrawQueue'[i].txHash = withdrawQueue[i].txHash
                  /\ withdrawQueue'[i].completedAt = withdrawQueue[i].completedAt]_vars

\* the first of two requests was completed at an earlier clock reading, the
\* second is pending, and all the requests of the run were answered, the
\* last of them a completion request
C30_Witness ==
  /\ Len(withdrawQueue) = 2
  /\ withdrawQueue[1].status = "completed"
  /\ withdrawQueue[1].txHash = "tx1"
  /\ withdrawQueue[1].completedAt < now
  /\ withdrawQueue[2].status = "pending"
  /\ resp = Response("process", 200, "")
  /\ budget = 0

\* the step records exactly one bet, of user u on direction d with stake a,
\* in an open market, and adds a to that market's pool for d
BetRecorded(u, d, a) ==
  /\ Cardinality(BetSet(markets')) = Cardinality(BetSet(markets)) + 1
  /\ Len(markets') \in {Len(markets), Len(markets) + 1}
  /\ \E i \in 1..Len(markets') :
       LET m == markets'[i]
           bets == IF i <= Len(markets) THEN markets[i].bets ELSE <<>>
           pool == IF i <= Len(markets) THEN markets[i].pools[d] ELSE 0
       IN /\ m.status = "open"
          /\ Len(m.bets) = Len(bets) + 1
          /\ SubSeq(m.bets, 1, Len(bets)) = bets
          /\ m.bets[Len(m.bets)].userId = u
          /\ m.bets[Len(m.bets)].direction = d
          /\ m.bets[Len(m.bets)].stakeTon = a
          /\ m.pools[d] = pool + a
          /\ \A j \in 1..Len(markets) : j # i => markets'[j] = markets[j]

\* C27: an open-bet request that has debited the stake goes on to record
\* exactly one bet of that user with that stake in an open market and to add
\* the stake to the chosen pool: at once when it joins a market, and when the
\* price index query returns, whatever it returns, when it waits for one; no
\* request that has debited waits for ever.
C27_DebitedStakeBecomesBet ==
  /\ [][/\ \A s \in PendingOpens(inflight) :
             inflight' = Remove(inflight, s)
               => BetRecorded(inflight[s].userId, inflight[s].direction,
                              inflight[s].amount)
        /\ \A u \in Users :
             (Debited(u) > 0 /\ resp'.op # "withdraw")
               => \/ /\ inflight' = inflight
                     /\ \E d \in Directions : BetRecorded(u, d, Debited(u))
                  \/ /\ Len(inflight') = Len(inflight) + 1
                     /\ inflight'[Len(inflight')].kind = "open"
                     /\ inflight'[Len(inflight')].userId = u
                     /\ inflight'[Len(inflight')].amount = Debited(u)
                     /\ UNCHANGED markets]_vars
  /\ []<>(PendingOpens(inflight) = {})

\* a request that waited for a price index query that failed has recorded
\* its bet in a market opened with strike 0
C27_Witness ==
  /\ resp.op = "open/resumed"
  /\ resp.code = 200
  /\ resp.market \in MarketIndexes
  /\ markets[resp.market].strike = 0
  /\ markets[resp.market].status = "open"
  /\ Len(markets[resp.market].bets) = 1
  /\ markets[resp.market].pools.above + markets[resp.market].pools.below
       = markets[resp.market].bets[1].stakeTon
  /\ PendingOpens(inflight) = {}

\* C31: the usage reported for a user counts a log entry in dailyUsed exactly
\* when it is younger than 24h and in monthlyUsed exactly when it is younger
\* than 30 days, so dailyUsed <= monthlyUsed, and when every entry is at
\* least 24h old the whole daily allowance remains.
C31_UsageWindows ==
  [][\A u \in Users :
       LimitsRequest(u) =>
         LET log == LogOf(withdrawalLog, u)
         IN /\ resp'.dailyUsed = LoggedWithin(log, now, dayMs, Len(log))
            /\ resp'.monthlyUsed = LoggedWithin(log, now, monthMs, Len(log))
            /\ resp'.dailyUsed
                 = Scale * Cardinality({k \in 1..Len(log) : now - log[k].ts < dayMs})
            /\ resp'.monthlyUsed
                 = Scale * Cardinality({k \in 1..Len(log) : now - log[k].ts < monthMs})
            /\ resp'.dailyUsed <= resp'.monthlyUsed
            /\ (\A k \in 1..Len(log) : now - log[k].ts >= dayMs)
                 => /\ resp'.dailyUsed = 0
                    /\ resp'.dailyRemaining = WITHDRAW_LIMIT_DAILY]_vars

\* a withdrawal made at 0 was exactly 24h old when the limits were queried:
\* it counts for the month and no longer for the day
C31_Witness ==
  /\ resp.op = "limits"
  /\ resp.code = 200
  /\ now = dayMs
  /\ Len(LogOf(withdrawalLog, "u1")) = 1
  /\ withdrawalLog["u1"][1].ts = 0
  /\ resp.dailyUsed = 0
  /\ resp.dailyRemaining = WITHDRAW_LIMIT_DAILY
  /\ resp.monthlyUsed = Scale

\* C32: no market is ever removed or changes its place, id or strike; a
\* status is open or settled and never goes from settled back to open; and
\* the bets and pools of a settled market never change again.
C32_MarketsOnlyMoveForward ==
  [][/\ Len(markets') >= Len(markets)
     /\ \A i \in 1..Len(markets) :
          /\ markets'[i].id = markets[i].id
          /\ markets'[i].asset = markets[i].asset
          /\ markets'[i].expiry = markets[i].expiry
          /\ markets'[i].strike = markets[i].strike
          /\ markets'[i].status \in {"open", "settled"}
          /\ markets[i].status = "settled"
               => /\ markets'[i].status = "settled"
                  /\ markets'[i].bets = markets[i].bets
                  /\ markets'[i].pools = markets[i].pools]_vars

\* a market with a bet was settled at an index other than its strike, and a
\* bet was placed after that
C32_Witness ==
  /\ resp.op \in {"open", "open/resumed"}
  /\ resp.code = 200
  /\ \E i \in MarketIndexes :
       /\ markets[i].status = "settled"
       /\ markets[i].bets # <<>>
       /\ markets[i].settleCap # markets[i].strike

\* C33: market ids are unique and increase in creation order, and bet ids are
\* unique across all markets and increase in recording order: every market
\* and every bet a step adds has an id above all those that existed.
C33_IdsIncrease ==
  /\ [](/\ \A i, j \in MarketIndexes : i < j => markets[i].id < markets[j].id
        /\ Cardinality({b.id : b \in BetSet(markets)})
             = SumOver([i \in MarketIndexes |-> Len(markets[i].bets)], MarketIndexes)
        /\ \A i \in MarketIndexes :
             \A k, l \in 1..Len(markets[i].bets) :
               k < l => markets[i].bets[k].id < markets[i].bets[l].id)
  /\ [][/\ \A b \in BetSet(markets') \ BetSet(markets) :
             \A c \in BetSet(markets) : c.id < b.id
        /\ \A i \in (Len(markets) + 1)..Len(markets') :
             \A j \in MarketIndexes : markets[j].id < markets'[i].id]_vars

\* bets were recorded alternately in two markets: the first market holds a
\* bet recorded after the bet of the second
C33_Witness ==
  /\ Len(markets) = 2
  /\ \E k \in 1..Len(markets[1].bets) :
       markets[2].bets # <<>> /\ markets[2].bets[1].id < markets[1].bets[k].id

\* C34: a failed price lookup yields index 0 and index 0 is a draw: every
\* settlement run of a market whose strike is 0, or whose settle index is 0,
\* refunds every bet its stake.
C34_FailedLookupIsDraw ==
  [][\A i \in MarketIndexes :
       (SettlementRun(i) /\ (markets[i].strike = 0 \/ markets'[i].settleCap = 0))
         => /\ \A u \in Users :
                 Credited(u) = OwnStakes(u, markets[i].bets, Len(markets[i].bets))
            /\ \A k \in 1..Len(markets[i].bets) :
                 betCredits'[markets[i].bets[k].id]
                   = betCredits[markets[i].bets[k].id] + 1]_vars

\* C35: the feeCollected a settlement run records is what the platform
\* keeps: the stakes of the market less the credits of the run, also on a
\* draw and when the winning pool is empty.
C35_FeeIsWhatIsRetained ==
  [][\A i \in MarketIndexes :
       SettlementRun(i) =>
         markets'[i].feeCollected
           = SumStakes(markets[i].bets)
               - SumOver([u \in Users |-> Credited(u)], Users)]_vars

\* C36: the ids of the withdrawal requests in the queue are unique, also for
\* requests accepted at the same clock reading, so a completion request
\* reaches every pending request by its id.
C36_WithdrawalIdsUnique ==
  \A i, j \in 1..Len(withdrawQueue) :
    withdrawQueue[i].id = withdrawQueue[j].id => i = j

\* C37: with a pool configured, once every upsert that credit and debit
\* issued has completed, the table holds for every user the balance of the
\* ledger, in whatever order the upserts completed.
C37_StoreMatchesLedger ==
  (pgPool /\ pgQueries = <<>>)
    => \A u \in DOMAIN ledger :
         u \in DOMAIN balances /\ balances[u] = ledger[u]

\* the step leaves the balance, the ledger record, the withdrawal log and the
\* limit usage of every user but u as they were
OthersUntouched(u) ==
  \A v \in Users \ {u} :
    /\ getBal(ledger', v) = getBal(ledger, v)
    /\ (v \in DOMAIN ledger') <=> (v \in DOMAIN ledger)
    /\ LogOf(withdrawalLog', v) = LogOf(withdrawalLog, v)
    /\ getWithdrawUsage(withdrawalLog', v, now')
         = getWithdrawUsage(withdrawalLog, v, now)

\* C38: a deposit, a bet or a withdrawal of user u changes neither the
\* balance nor the withdrawal log nor the limit usage of any other user; a
\* settlement run changes no log and only credits owners of bets of the
\* market it settles.
C38_OtherUsersUntouched ==
  [][/\ \A u \in Users :
          /\ \A a \in DepositAmounts : Deposit(u, a) => OthersUntouched(u)
          /\ \A a \in WithdrawAmounts :
               Withdraw(u, "EQaddr", a) => OthersUntouched(u)
          /\ \A as \in AssetInputs, d \in Directions, a \in StakeAmounts,
                e \in ExpiryInputs :
               OpenBet(u, as, d, a, e) => OthersUntouched(u)
     /\ \A s \in 1..Len(inflight), r \in ProviderResults :
          /\ OpenResume(s, r)
               => (ledger' = ledger /\ withdrawalLog' = withdrawalLog)
          /\ SettleResume(s, r)
               => /\ withdrawalLog' = withdrawalLog
                  /\ \A v \in Users :
                       /\ Credited(v) >= 0
                       /\ getBal(ledger', v) # getBal(ledger, v)
                            => \E k \in 1..Len(markets[inflight[s].market].bets) :
                                 markets[inflight[s].market].bets[k].userId = v]_vars

\* u1 has withdrawn 2 TON of a deposit of 3 TON while u2 holds a deposit:
\* u2 still has its 3 TON and an empty log
C38_Witness ==
  /\ resp = Response("withdraw", 200, "")
  /\ getBal(ledger, "u1") = Scale
  /\ Len(LogOf(withdrawalLog, "u1")) = 1
  /\ getBal(ledger, "u2") = 3 * Scale
  /\ LogOf(withdrawalLog, "u2") = <<>>
====
